---- MODULE Spec2Model ----
(***************************************************************************)
(* Adaptive ingestion core: Analyzer (analyzer.py), TypeDriftDetector      *)
(* (drift_detector.py) and classify_with_placement_heuristics              *)
(* (classifier.py), driven by a caller that feeds records, takes snapshots *)
(* and classifies them, as the record loop of main.py does.                *)
(*                                                                         *)
(* Python floats are modelled as exact rationals <<num, den>>; the one     *)
(* place where IEEE-754 rounding changes a decision inside the windows     *)
(* modelled here (1.0 - 4/5 < 0.20) is modelled in has_drift.              *)
(***************************************************************************)
EXTENDS FiniteSets, Integers, Sequences, TLC

----------------------------------------------------------------------------
(* Bounds of the model *)

\* number of records the free-running source emits
MaxRecords == 7
\* batch length the Analyzer is configured with in the free-running model
BatchSize == 2
\* window length the detector is constructed with in the detector-only model
SmallWindow == 3
\* number of direct detector calls in the detector-only model
MaxCalls == 5
\* number of calls a process makes on the MetadataManager
MaxManagerCalls == 5

(* Program constants *)

\* Analyzer.__init__: self.batch_size = 10
DefaultBatchSize == 10
\* Analyzer.__init__: TypeDriftDetector(window_size=50, ...)
DefaultWindowSize == 50
\* update_field_types: keep only the last 10 entries of the type sequence
TypeSeqCap == 10
\* Analyzer.update: keep at most 100 sample values
SampleCap == 100
\* detect_semantic_type: list(values_sample)[:50]
SemanticSampleMax == 50
\* main.py: the routing cache is refreshed and the profiles are saved when
\* (i + 1) % 10 == 0
RefreshEvery == 10
\* main.py: if i >= 49: break
StopAfter == 50

----------------------------------------------------------------------------
(* Exact rational arithmetic standing for Python float arithmetic *)

RECURSIVE GCD(_, _)
GCD(a, b) == IF b = 0 THEN a ELSE GCD(b, a % b)

Abs(x) == IF x < 0 THEN -x ELSE x

\* a rational in lowest terms with a positive denominator
Rat(n, d) ==
    LET g == GCD(Abs(n), d)
    IN  IF n = 0 THEN <<0, 1>> ELSE <<n \div g, d \div g>>

RAdd(a, b) ==
    LET g == GCD(a[2], b[2])
        l == (a[2] \div g) * b[2]
    IN  Rat(a[1] * (l \div a[2]) + b[1] * (l \div b[2]), l)

RNeg(a) == <<-a[1], a[2]>>
RSub(a, b) == RAdd(a, RNeg(b))

RMul(a, b) ==
    LET g1 == GCD(Abs(a[1]), b[2])
        g2 == GCD(Abs(b[1]), a[2])
        h1 == IF g1 = 0 THEN 1 ELSE g1
        h2 == IF g2 = 0 THEN 1 ELSE g2
    IN  Rat((a[1] \div h1) * (b[1] \div h2), (a[2] \div h2) * (b[2] \div h1))

RLe(a, b) == a[1] * b[2] <= b[1] * a[2]
RLt(a, b) == a[1] * b[2] < b[1] * a[2]
RGe(a, b) == RLe(b, a)
RMax(a, b) == IF RLe(a, b) THEN b ELSE a
RMin(a, b) == IF RLe(a, b) THEN a ELSE b

R0 == <<0, 1>>
R1 == <<1, 1>>

----------------------------------------------------------------------------
(* Values a record can carry.  A value is described by what the code      *)
(* looks at: type(value).__name__, str(value), len(str(value)) and which  *)
(* of the regular expressions of detect_semantic_type str(value) matches. *)

(* kind: "ip", "email", "uuid", "timestamp" (the pattern str(value)       *)
(* matches), "numeric" (digits once '.' and '-' are removed) or "none";   *)
(* lit: the tag detect_type_ambiguity gives the string str(value).        *)

Val(t, s, l, k, a) ==
    [py_type |-> t, sig |-> s, len |-> l, kind |-> k, lit |-> a]

\* the string "30"
V_str30 == Val("str", "30", 2, "numeric", "potential_int")
\* the integer 30; str(30) is "30" as well
V_int30 == Val("int", "30", 2, "numeric", "potential_int")
\* a string in UUID format
V_uuid == Val("str", "123e4567-e89b-12d3-a456-426614174000", 36, "uuid", "str")
\* the map {"a": 1}
V_dict == Val("dict", "{'a': 1}", 8, "none", "str")

Values == {V_str30, V_int30, V_uuid, V_dict}

\* len(str(n)) for a number below 1000
Digits(n) == IF n < 10 THEN 1 ELSE IF n < 100 THEN 2 ELSE 3

\* the number n as an integer (t = "int") or as the string of its digits
\* (t = "str"); str(value) is the same for both and is told apart from
\* that of every other number, so n stands for it
V_num(t, n) ==
    Val(t, n, Digits(n), "numeric", "potential_int")

\* isinstance(value, (dict, list))
IsNested(v) == v.py_type \in {"dict", "list"}

\* the order of sorted() on the type names
TypeOrder == <<"NoneType", "bool", "dict", "float", "int", "list", "str">>

TypeNames == {TypeOrder[i] : i \in 1..Len(TypeOrder)}

RECURSIVE SortedFrom(_, _)
SortedFrom(S, i) ==
    IF i > Len(TypeOrder) THEN <<>>
    ELSE (IF TypeOrder[i] \in S THEN <<TypeOrder[i]>> ELSE <<>>)
         \o SortedFrom(S, i + 1)

\* sorted(list(batch_types))
SortedTypes(S) == SortedFrom(S, 1)

\* seq[-k:]
LastK(seq, k) ==
    IF Len(seq) <= k THEN seq ELSE SubSeq(seq, Len(seq) - k + 1, Len(seq))

----------------------------------------------------------------------------
(* TypeDriftDetector (drift_detector.py).  The detector's dictionaries are *)
(* functions whose DOMAIN is the set of keys present.                      *)

\* drift_threshold=0.20
DriftThreshold == <<1, 5>>

\* reading a defaultdict(list) without creating the key
ListOf(d, f) == IF f \in DOMAIN d THEN d[f] ELSE <<>>

\* d[k] = v on a dictionary
Put(d, k, v) == [x \in DOMAIN d \cup {k} |-> IF x = k THEN v ELSE d[x]]

\* type_dist of update_field_types: equal shares of the batch's types
type_dist(batch_types) ==
    [t \in batch_types |-> Rat(1, Cardinality(batch_types))]

\* a type sequence that is never cut
new_type_sequence_uncut(ts, field, batch_types) ==
    LET types_list == SortedTypes(batch_types)
        old == ListOf(ts, field)
    IN  IF types_list # LastK(old, 1)
        THEN old \o types_list
        ELSE old

\* the type sequence of a field after update_field_types(field, batch_types)
new_type_sequence(ts, field, batch_types) ==
    LET types_list == SortedTypes(batch_types)
        old == ListOf(ts, field)
    IN  IF types_list # LastK(old, 1)
        THEN LastK(old \o types_list, TypeSeqCap)
        ELSE old

\* a window that refuses the new entry once it is full
new_field_window_keep_oldest(fw, field, batch_types, wsize) ==
    LET old == ListOf(fw, field)
        entry == [types |-> batch_types,
                  distribution |-> type_dist(batch_types),
                  batch_id |-> Len(old)]
        grown == Append(old, entry)
    IN  IF Len(grown) <= wsize THEN grown ELSE SubSeq(grown, 1, wsize)

\* the window of a field after update_field_types(field, batch_types)
new_field_window(fw, field, batch_types, wsize) ==
    LET old == ListOf(fw, field)
        entry == [types |-> batch_types,
                  distribution |-> type_dist(batch_types),
                  batch_id |-> Len(old)]
    IN  LastK(Append(old, entry), wsize)

\* detect_flip_patterns; a label a->b->c is the tuple <<a, b, c>>
StrNames == {"str", "string"}
NumNames == {"int", "float", "number"}

\* a labelling that knows the two named patterns only
triple_label_named_only(a, b, c) ==
    IF a \in StrNames /\ b \in NumNames /\ c \in StrNames
    THEN {<<"str", "num", "str">>}
    ELSE IF a \in NumNames /\ b \in StrNames /\ c \in NumNames
    THEN {<<"num", "str", "num">>}
    ELSE {}

triple_label(a, b, c) ==
    IF a \in StrNames /\ b \in NumNames /\ c \in StrNames
    THEN {<<"str", "num", "str">>}
    ELSE IF a \in NumNames /\ b \in StrNames /\ c \in NumNames
    THEN {<<"num", "str", "num">>}
    ELSE IF a = c /\ a # b
    THEN {<<a, b, a>>}
    ELSE {}

detect_flip_patterns(ts, field) ==
    IF field \notin DOMAIN ts \/ Len(ts[field]) < 3
    THEN {}
    ELSE LET sequence == ts[field]
         IN  UNION {triple_label(sequence[i], sequence[i + 1], sequence[i + 2]) :
                        i \in 1..(Len(sequence) - 2)}

\* all_types that lets a batch vote only for a type it shows alone
all_types_exclusive(window) ==
    LET seen == UNION {window[i].types : i \in 1..Len(window)}
    IN  [t \in seen |-> Cardinality({i \in 1..Len(window) : window[i].types = {t}})]

\* all_types: one vote per retained window entry that shows the type
all_types(window) ==
    LET seen == UNION {window[i].types : i \in 1..Len(window)}
    IN  [t \in seen |-> Cardinality({i \in 1..Len(window) : t \in window[i].types})]

\* index of the first window entry that shows the type (Counter insertion)
first_seen(window, t) ==
    CHOOSE i \in 1..Len(window) :
        /\ t \in window[i].types
        /\ \A j \in 1..(i - 1) : t \notin window[j].types

\* max(type_shares, key=type_shares.get) returns the first key of the
\* Counter that has the largest share.  Keys are inserted in window order;
\* the order of two types first seen in the same batch is the iteration
\* order of a set of strings, which differs between runs.
dominant_candidates(window) ==
    LET cnt == all_types(window)
        best == {t \in DOMAIN cnt : \A u \in DOMAIN cnt : cnt[u] <= cnt[t]}
    IN  IF DOMAIN cnt = {} THEN {"unknown"}
        ELSE {t \in best :
                \A u \in best : first_seen(window, t) <= first_seen(window, u)}

\* has_drift = drift_score >= self.drift_threshold on doubles:
\* 1.0 - 4/5 evaluates to 0.19999999999999996, which is below 0.20, and no
\* other share count/total with total <= 52 rounds across the threshold.
has_drift(drift_score) ==
    RGe(drift_score, DriftThreshold) /\ drift_score # <<1, 5>>

\* field_windows after self.field_windows[field] was read without a
\* membership test: the defaultdict inserts an empty list for a missing key
field_windows_after_indexing(fw, field) == Put(fw, field, ListOf(fw, field))

\* field_windows after calculate_drift_score looked the field up: the test
\* `field not in self.field_windows` comes first and inserts nothing, and
\* the window is indexed only when the key is present
field_windows_after_lookup(fw, field) ==
    IF field \notin DOMAIN fw THEN fw ELSE Put(fw, field, fw[field])

\* calculate_drift_score with the dominant type dom
drift_analysis_with(fw, ts, field, dom) ==
    IF field \notin DOMAIN fw \/ Len(fw[field]) < 2
    THEN [drift_score |-> R0,
          dominant_type |-> "unknown",
          type_shares |-> <<>>,
          has_drift |-> FALSE,
          flip_patterns |-> {}]
    ELSE LET window == fw[field]
             total_windows == Len(window)
             cnt == all_types(window)
             type_shares == [t \in DOMAIN cnt |-> Rat(cnt[t], total_windows)]
             max_share == IF DOMAIN cnt = {} THEN R1
                          ELSE CHOOSE m \in {type_shares[t] : t \in DOMAIN cnt} :
                                   \A u \in DOMAIN cnt : RLe(type_shares[u], m)
             drift_score == RSub(R1, max_share)
         IN  [drift_score |-> drift_score,
              dominant_type |-> dom,
              type_shares |-> type_shares,
              has_drift |-> has_drift(drift_score),
              flip_patterns |-> detect_flip_patterns(ts, field),
              window_count |-> total_windows]

\* the values dominant_type can take for the field
dominant_of(fw, field) ==
    IF field \notin DOMAIN fw \/ Len(fw[field]) < 2
    THEN {"unknown"}
    ELSE dominant_candidates(fw[field])

\* calculate_drift_score: every result a run can produce
calculate_drift_score(fw, ts, field) ==
    {drift_analysis_with(fw, ts, field, dom) : dom \in dominant_of(fw, field)}

\* should_quarantine_field without its first rule: the quarantine set is
\* never consulted
should_quarantine_field_no_set(quarantined, field, drift_analysis) ==
    IF drift_analysis.has_drift
    THEN [should_quarantine |-> TRUE,
          reason |-> [tag |-> "high_drift_score",
                      score |-> drift_analysis.drift_score,
                      patterns |-> drift_analysis.flip_patterns],
          drift_analysis |-> drift_analysis]
    ELSE IF Cardinality(drift_analysis.flip_patterns) >= 2
    THEN [should_quarantine |-> TRUE,
          reason |-> [tag |-> "multiple_flip_patterns",
                      patterns |-> drift_analysis.flip_patterns],
          drift_analysis |-> drift_analysis]
    ELSE [should_quarantine |-> FALSE,
          reason |-> [tag |-> "stable"],
          drift_analysis |-> drift_analysis]

\* should_quarantine_field with its second and third rule exchanged
should_quarantine_field_flips_first(quarantined, field, drift_analysis) ==
    IF field \in quarantined
    THEN [should_quarantine |-> TRUE,
          reason |-> [tag |-> "already_quarantined"],
          drift_analysis |-> drift_analysis]
    ELSE IF Cardinality(drift_analysis.flip_patterns) >= 2
    THEN [should_quarantine |-> TRUE,
          reason |-> [tag |-> "multiple_flip_patterns",
                      patterns |-> drift_analysis.flip_patterns],
          drift_analysis |-> drift_analysis]
    ELSE IF drift_analysis.has_drift
    THEN [should_quarantine |-> TRUE,
          reason |-> [tag |-> "high_drift_score",
                      score |-> drift_analysis.drift_score,
                      patterns |-> drift_analysis.flip_patterns],
          drift_analysis |-> drift_analysis]
    ELSE [should_quarantine |-> FALSE,
          reason |-> [tag |-> "stable"],
          drift_analysis |-> drift_analysis]

\* should_quarantine_field on the analysis calculate_drift_score returned.
\* The reason string f"high_drift_score_{score:.2f}[_with_patterns_...]" is
\* kept as its parts: a tag, the score and the pattern labels.
should_quarantine_field(quarantined, field, drift_analysis) ==
    IF field \in quarantined
    THEN [should_quarantine |-> TRUE,
          reason |-> [tag |-> "already_quarantined"],
          drift_analysis |-> drift_analysis]
    ELSE IF drift_analysis.has_drift
    THEN [should_quarantine |-> TRUE,
          reason |-> [tag |-> "high_drift_score",
                      score |-> drift_analysis.drift_score,
                      patterns |-> drift_analysis.flip_patterns],
          drift_analysis |-> drift_analysis]
    ELSE IF Cardinality(drift_analysis.flip_patterns) >= 2
    THEN [should_quarantine |-> TRUE,
          reason |-> [tag |-> "multiple_flip_patterns",
                      patterns |-> drift_analysis.flip_patterns],
          drift_analysis |-> drift_analysis]
    ELSE [should_quarantine |-> FALSE,
          reason |-> [tag |-> "stable"],
          drift_analysis |-> drift_analysis]

----------------------------------------------------------------------------
(* Analyzer (analyzer.py) *)

VARIABLES
    total,                  \* Analyzer.total
    batch_size,             \* Analyzer.batch_size
    current_batch,          \* Analyzer.current_batch
    stats,                  \* Analyzer.stats: field -> accumulators
    batch_types_tracking,   \* Analyzer.batch_types_tracking: batch -> field -> types
    window_size,            \* TypeDriftDetector.window_size
    field_windows,          \* TypeDriftDetector.field_windows
    type_sequences,         \* TypeDriftDetector.type_sequences
    quarantined_fields,     \* TypeDriftDetector.quarantined_fields
    drift_events,           \* TypeDriftDetector.drift_events
    snapshot,               \* the value the last get_stats() returned
    classified,             \* the outcome of the last classifier call
    verdict,                \* the value the last direct detector query returned
    pc,                     \* the caller's position in the record loop
    source,                 \* the record source and the caller's last call or record
    metadata_file,          \* the durable store MetadataManager.metadata_file names
    field_metadata,         \* MetadataManager.field_metadata: field -> profile
    manager,                \* the MetadataManager object and what its last call returned
    metadata                \* main.py's routing cache: field -> decision

vars == <<total, batch_size, current_batch, stats, batch_types_tracking,
          window_size, field_windows, type_sequences, quarantined_fields,
          drift_events, snapshot, classified, verdict, pc, source,
          metadata_file, field_metadata, manager, metadata>>

analyzer_vars == <<total, batch_size, current_batch, stats, batch_types_tracking>>
detector_vars == <<window_size, field_windows, type_sequences,
                   quarantined_fields, drift_events>>
metadata_vars == <<metadata_file, field_metadata, manager, metadata>>

\* the default factory of Analyzer.stats
new_field_stats ==
    [count |-> 0, types |-> {}, unique |-> {}, nested |-> FALSE,
     batch_history |-> <<>>, values_sample |-> {}]

\* update_field that keeps only the type of the latest value
update_field_last_type(s, value, batch) ==
    LET h == s.batch_history
        value_type == value.py_type
    IN  [count |-> s.count + 1,
         types |-> {value_type},
         unique |-> s.unique \cup {value.sig},
         values_sample |->
             IF Cardinality(s.values_sample) < SampleCap
             THEN s.values_sample \cup {value.sig}
             ELSE s.values_sample,
         nested |-> s.nested \/ IsNested(value),
         batch_history |->
             IF Len(h) > 0 /\ h[Len(h)].batch = batch
             THEN [h EXCEPT ![Len(h)] =
                      [batch |-> batch, present |-> TRUE,
                       types |-> h[Len(h)].types \cup {value_type}]]
             ELSE Append(h, [batch |-> batch, present |-> TRUE,
                             types |-> {value_type}])]

\* update_field whose nested flag tells of the latest value only
update_field_nested_latest(s, value, batch) ==
    LET h == s.batch_history
        value_type == value.py_type
    IN  [count |-> s.count + 1,
         types |-> s.types \cup {value_type},
         unique |-> s.unique \cup {value.sig},
         values_sample |->
             IF Cardinality(s.values_sample) < SampleCap
             THEN s.values_sample \cup {value.sig}
             ELSE s.values_sample,
         nested |-> IsNested(value),
         batch_history |->
             IF Len(h) > 0 /\ h[Len(h)].batch = batch
             THEN [h EXCEPT ![Len(h)] =
                      [batch |-> batch, present |-> TRUE,
                       types |-> h[Len(h)].types \cup {value_type}]]
             ELSE Append(h, [batch |-> batch, present |-> TRUE,
                             types |-> {value_type}])]

\* update_field that counts a field once per batch instead of once per record
update_field_count_per_batch(s, value, batch) ==
    LET h == s.batch_history
        value_type == value.py_type
        seen_in_batch == Len(h) > 0 /\ h[Len(h)].batch = batch /\ h[Len(h)].present
    IN  [count |-> IF seen_in_batch THEN s.count ELSE s.count + 1,
         types |-> s.types \cup {value_type},
         unique |-> s.unique \cup {value.sig},
         values_sample |->
             IF Cardinality(s.values_sample) < SampleCap
             THEN s.values_sample \cup {value.sig}
             ELSE s.values_sample,
         nested |-> s.nested \/ IsNested(value),
         batch_history |->
             IF Len(h) > 0 /\ h[Len(h)].batch = batch
             THEN [h EXCEPT ![Len(h)] =
                      [batch |-> batch, present |-> TRUE,
                       types |-> h[Len(h)].types \cup {value_type}]]
             ELSE Append(h, [batch |-> batch, present |-> TRUE,
                             types |-> {value_type}])]

\* the per-field loop body of Analyzer.update for a field of the record
update_field(s, value, batch) ==
    LET h == s.batch_history
        value_type == value.py_type
    IN  [count |-> s.count + 1,
         types |-> s.types \cup {value_type},
         unique |-> s.unique \cup {value.sig},
         values_sample |->
             IF Cardinality(s.values_sample) < SampleCap
             THEN s.values_sample \cup {value.sig}
             ELSE s.values_sample,
         nested |-> s.nested \/ IsNested(value),
         batch_history |->
             IF Len(h) > 0 /\ h[Len(h)].batch = batch
             THEN [h EXCEPT ![Len(h)] =
                      [batch |-> batch, present |-> TRUE,
                       types |-> h[Len(h)].types \cup {value_type}]]
             ELSE Append(h, [batch |-> batch, present |-> TRUE,
                             types |-> {value_type}])]

\* a batch boundary that opens no entry for the fields seen before
open_batch_skip(st, batch) == st

\* "Initialize batch tracking for all existing fields" at a batch boundary
open_batch(st, batch) ==
    [f \in DOMAIN st |->
        [st[f] EXCEPT !.batch_history =
            Append(@, [batch |-> batch, present |-> FALSE, types |-> {}])]]

\* Analyzer.stats after update(record)
stats_after(st, record, boundary, batch) ==
    LET opened == IF boundary THEN open_batch(st, batch) ELSE st
    IN  [f \in DOMAIN opened \cup DOMAIN record |->
            IF f \in DOMAIN record
            THEN update_field(IF f \in DOMAIN opened THEN opened[f]
                              ELSE new_field_stats,
                              record[f], batch)
            ELSE opened[f]]

\* a tracking that adds the record's types to every field of the batch
tracking_after_shared_types(tr, record, batch) ==
    IF DOMAIN record = {} THEN tr
    ELSE LET old == IF batch \in DOMAIN tr THEN tr[batch] ELSE <<>>
             new == [f \in DOMAIN old \cup DOMAIN record |->
                        (IF f \in DOMAIN old THEN old[f] ELSE {})
                        \cup {record[g].py_type : g \in DOMAIN record}]
         IN  Put(tr, batch, new)

\* a tracking that keeps the last type a field showed in the batch only
tracking_after_last_type(tr, record, batch) ==
    IF DOMAIN record = {} THEN tr
    ELSE LET old == IF batch \in DOMAIN tr THEN tr[batch] ELSE <<>>
             new == [f \in DOMAIN old \cup DOMAIN record |->
                        IF f \in DOMAIN record
                        THEN {record[f].py_type} ELSE old[f]]
         IN  Put(tr, batch, new)

\* batch_types_tracking after the record's fields were added to the batch
tracking_after(tr, record, batch) ==
    IF DOMAIN record = {} THEN tr
    ELSE LET old == IF batch \in DOMAIN tr THEN tr[batch] ELSE <<>>
             new == [f \in DOMAIN old \cup DOMAIN record |->
                        (IF f \in DOMAIN old THEN old[f] ELSE {})
                        \cup (IF f \in DOMAIN record
                              THEN {record[f].py_type} ELSE {})]
         IN  Put(tr, batch, new)

\* del d[k]
Drop(d, k) == [x \in DOMAIN d \ {k} |-> d[x]]

\* an update that opens a batch at the last record of a batch
AnalyzerUpdateBoundaryLast(record) ==
    LET n == total + 1
        boundary == (n % batch_size) = 0
        batch == IF boundary THEN current_batch + 1 ELSE current_batch
        prev_batch == batch - 1
        deliver == boundary /\ batch > 1 /\ prev_batch \in DOMAIN batch_types_tracking
        delivered == IF deliver THEN batch_types_tracking[prev_batch] ELSE <<>>
        tr == IF deliver THEN Drop(batch_types_tracking, prev_batch)
              ELSE batch_types_tracking
    IN  /\ total' = n
        /\ current_batch' = batch
        /\ stats' = stats_after(stats, record, boundary, batch)
        /\ batch_types_tracking' = tracking_after(tr, record, batch)
        /\ field_windows' =
               [f \in DOMAIN field_windows \cup DOMAIN delivered |->
                   IF f \in DOMAIN delivered
                   THEN new_field_window(field_windows, f, delivered[f], window_size)
                   ELSE field_windows[f]]
        /\ type_sequences' =
               [f \in DOMAIN type_sequences \cup DOMAIN delivered |->
                   IF f \in DOMAIN delivered
                   THEN new_type_sequence(type_sequences, f, delivered[f])
                   ELSE type_sequences[f]]
        /\ UNCHANGED <<batch_size, window_size, quarantined_fields, drift_events>>

\* what update(record) makes of the analyzer and of its detector: the
\* counters, the statistics, the batch tracking, and the windows and type
\* sequences after _process_batch_drift_detection
update_state(n0, bsize, cb, st, tr0, fw, ts, wsize, record) ==
    LET n == n0 + 1
        boundary == (n % bsize) = 1
        batch == IF boundary THEN cb + 1 ELSE cb
        prev_batch == batch - 1
        deliver == boundary /\ batch > 1 /\ prev_batch \in DOMAIN tr0
        delivered == IF deliver THEN tr0[prev_batch] ELSE <<>>
        tr == IF deliver THEN Drop(tr0, prev_batch) ELSE tr0
    IN  [total |-> n,
         current_batch |-> batch,
         stats |-> stats_after(st, record, boundary, batch),
         batch_types_tracking |-> tracking_after(tr, record, batch),
         field_windows |->
             [f \in DOMAIN fw \cup DOMAIN delivered |->
                 IF f \in DOMAIN delivered
                 THEN new_field_window(fw, f, delivered[f], wsize)
                 ELSE fw[f]],
         type_sequences |->
             [f \in DOMAIN ts \cup DOMAIN delivered |->
                 IF f \in DOMAIN delivered
                 THEN new_type_sequence(ts, f, delivered[f])
                 ELSE ts[f]]]

\* Analyzer.update(record), with _process_batch_drift_detection
AnalyzerUpdate(record) ==
    LET after == update_state(total, batch_size, current_batch, stats,
                              batch_types_tracking, field_windows,
                              type_sequences, window_size, record)
    IN  /\ total' = after.total
        /\ current_batch' = after.current_batch
        /\ stats' = after.stats
        /\ batch_types_tracking' = after.batch_types_tracking
        /\ field_windows' = after.field_windows
        /\ type_sequences' = after.type_sequences
        /\ UNCHANGED <<batch_size, window_size, quarantined_fields, drift_events>>

\* calculate_stability that answers 0.0 when there is too little history
calculate_stability_cold_zero(st, field_name) ==
    LET h == st[field_name].batch_history
    IN  IF Len(h) < 2 THEN R0
        ELSE LET total_batches == Len(h)
                 present_idx == {i \in 1..Len(h) : h[i].present}
                 presence_ratio == Rat(Cardinality(present_idx), total_batches)
             IN  IF present_idx = {} THEN R0
                 ELSE LET \* max(..., key=len): the first set of largest size
                          first_max == CHOOSE i \in present_idx :
                              /\ \A j \in present_idx :
                                     Cardinality(h[j].types) <= Cardinality(h[i].types)
                              /\ \A j \in present_idx :
                                     j < i => Cardinality(h[j].types) < Cardinality(h[i].types)
                          most_common_types == h[first_max].types
                          consistent_batches ==
                              Cardinality({i \in present_idx : h[i].types = most_common_types})
                          type_consistency ==
                              Rat(consistent_batches, Cardinality(present_idx))
                          stability == RAdd(RMul(<<3, 5>>, presence_ratio),
                                            RMul(<<2, 5>>, type_consistency))
                      IN  RMin(R1, RMax(R0, stability))

\* Analyzer.calculate_stability
calculate_stability(st, field_name) ==
    LET h == st[field_name].batch_history
    IN  IF Len(h) < 2 THEN R1
        ELSE LET total_batches == Len(h)
                 present_idx == {i \in 1..Len(h) : h[i].present}
                 presence_ratio == Rat(Cardinality(present_idx), total_batches)
             IN  IF present_idx = {} THEN R0
                 ELSE LET \* max(..., key=len): the first set of largest size
                          first_max == CHOOSE i \in present_idx :
                              /\ \A j \in present_idx :
                                     Cardinality(h[j].types) <= Cardinality(h[i].types)
                              /\ \A j \in present_idx :
                                     j < i => Cardinality(h[j].types) < Cardinality(h[i].types)
                          most_common_types == h[first_max].types
                          consistent_batches ==
                              Cardinality({i \in present_idx : h[i].types = most_common_types})
                          type_consistency ==
                              Rat(consistent_batches, Cardinality(present_idx))
                          stability == RAdd(RMul(<<3, 5>>, presence_ratio),
                                            RMul(<<2, 5>>, type_consistency))
                      IN  RMin(R1, RMax(R0, stability))

\* what the code sees of a sample string: a value with that str()
OfSig(sig) == CHOOSE v \in Values : v.sig = sig

RECURSIVE SumLen(_)
SumLen(S) ==
    IF S = {} THEN 0
    ELSE LET x == CHOOSE y \in S : TRUE
         IN  OfSig(x).len + SumLen(S \ {x})

MaxLen(S) == CHOOSE m \in {OfSig(x).len : x \in S} : \A x \in S : OfSig(x).len <= m

\* 'username' in field_name.lower() or 'user_name' in field_name.lower(),
\* on the field names of the model
is_username_field(field_name) == field_name \in {"username", "user_name"}

\* list(values_sample)[:50]: the whole sample, or any 50 of its strings
semantic_samples(values_sample) ==
    IF Cardinality(values_sample) <= SemanticSampleMax
    THEN {values_sample}
    ELSE {S \in SUBSET values_sample : Cardinality(S) = SemanticSampleMax}

\* detect_semantic_type on the strings sample_values
detect_semantic_type_on(field_name, sample_values) ==
    IF sample_values = {}
    THEN [detected_kind |-> "unknown", semantic_weight |-> R0,
          avg_length |-> R0, max_length |-> 0, is_long_text |-> FALSE]
    ELSE LET total_n == Cardinality(sample_values)
             avg_length == Rat(SumLen(sample_values), total_n)
             max_length == MaxLen(sample_values)
             is_long_text == RGe(avg_length, <<120, 1>>)
             matches(k) == Cardinality({x \in sample_values : OfSig(x).kind = k})
             numeric_matches ==
                 Cardinality({x \in sample_values : OfSig(x).kind \in {"numeric", "ip"}})
             unique_count == total_n
             res(kind, weight) ==
                 [detected_kind |-> kind, semantic_weight |-> weight,
                  avg_length |-> avg_length, max_length |-> max_length,
                  is_long_text |-> is_long_text]
         IN  IF 5 * matches("ip") >= 4 * total_n THEN res("ip", <<3, 20>>)
             ELSE IF 5 * matches("email") >= 4 * total_n THEN res("email", <<3, 20>>)
             ELSE IF 5 * matches("uuid") >= 4 * total_n THEN res("uuid", <<3, 20>>)
             ELSE IF 5 * matches("timestamp") >= 4 * total_n
                  THEN res("timestamp", <<3, 20>>)
             ELSE IF is_username_field(field_name) THEN res("username", <<3, 20>>)
             ELSE IF 10 * numeric_matches >= 9 * total_n
                  THEN IF unique_count <= 20 THEN res("categorical", <<1, 10>>)
                       ELSE res("continuous", <<1, 20>>)
             ELSE IF is_long_text THEN res("long_text", <<-1, 10>>)
             ELSE res("unknown", R0)

\* detect_type_ambiguity on the sample strings
detect_type_ambiguity(field_name, values_sample) ==
    IF values_sample = {}
    THEN [has_type_ambiguity |-> FALSE, types_detected |-> {},
          ambiguity_score |-> R0]
    ELSE LET types_found == {OfSig(x).lit : x \in values_sample}
         IN  [has_type_ambiguity |-> Cardinality(types_found) > 1,
              types_detected |-> types_found,
              ambiguity_score |-> RMin(R1, Rat(Cardinality(types_found) - 1, 3))]

\* a score that forgets the drift penalty
weighted_score_no_penalty(freq, stability, type_weight, semantic_weight, uniqueness_weight, drift_penalty) ==
    RAdd(RAdd(RAdd(RAdd(RMul(<<3, 10>>, freq),
                        RMul(<<1, 5>>, stability)),
                   RMul(<<1, 5>>, type_weight)),
              RMul(<<3, 20>>, RAdd(semantic_weight, <<1, 10>>))),
         RMul(<<3, 20>>, uniqueness_weight))

\* get_stats: the composite score before it is floored at 0
weighted_score(freq, stability, type_weight, semantic_weight, uniqueness_weight, drift_penalty) ==
    RSub(RAdd(RAdd(RAdd(RAdd(RMul(<<3, 10>>, freq),
                             RMul(<<1, 5>>, stability)),
                        RMul(<<1, 5>>, type_weight)),
                   RMul(<<3, 20>>, RAdd(semantic_weight, <<1, 10>>))),
              RMul(<<3, 20>>, uniqueness_weight)),
         drift_penalty)

\* the snapshot entry get_stats builds for one field from the analyzer's and
\* the detector's state, given the semantic sample and the dominant type of
\* this run
field_snapshot_of(n, st, fw, ts, quarantined, field_name, sample_values, dom) ==
    LET s == st[field_name]
        uniqueness_ratio ==
            IF s.count > 0 THEN Rat(Cardinality(s.unique), s.count) ELSE R0
        is_unique_field == RGe(uniqueness_ratio, <<95, 100>>)
        has_type_ambiguity == Cardinality(s.types) > 1
        stability == calculate_stability(st, field_name)
        semantic_info == detect_semantic_type_on(field_name, sample_values)
        ambiguity_info == detect_type_ambiguity(field_name, s.values_sample)
        drift_analysis ==
            drift_analysis_with(fw, ts, field_name, dom)
        quarantine_check ==
            should_quarantine_field(quarantined, field_name, drift_analysis)
        freq == Rat(s.count, n)
        types_count == Cardinality(s.types)
        uniqueness_weight ==
            IF RGe(uniqueness_ratio, <<95, 100>>) /\ RGe(freq, <<1, 2>>)
            THEN <<1, 5>>
            ELSE IF RGe(uniqueness_ratio, <<7, 10>>) /\ RLt(uniqueness_ratio, <<95, 100>>)
            THEN <<3, 20>>
            ELSE R0
        type_weight == RSub(R1, RMin(<<Abs(types_count - 1), 1>>, R1))
        drift_penalty == RMul(drift_analysis.drift_score, <<3, 10>>)
        score == weighted_score(freq, stability, type_weight,
                                semantic_info.semantic_weight,
                                uniqueness_weight, drift_penalty)
    IN  [freq |-> freq,
         types |-> s.types,
         unique_count |-> Cardinality(s.unique),
         uniqueness_ratio |-> uniqueness_ratio,
         is_unique_field |-> is_unique_field,
         nested |-> s.nested,
         field_name |-> field_name,
         has_type_ambiguity |-> has_type_ambiguity,
         stability |-> stability,
         semantic_info |-> semantic_info,
         ambiguity_info |-> ambiguity_info,
         composite_score |-> RMax(R0, score),
         types_count |-> types_count,
         drift_analysis |-> drift_analysis,
         should_quarantine |-> quarantine_check.should_quarantine,
         quarantine_reason |-> quarantine_check.reason]

\* the snapshot entry get_stats builds for one field of this analyzer
field_snapshot(field_name, sample_values, dom) ==
    field_snapshot_of(total, stats, field_windows, type_sequences,
                      quarantined_fields, field_name, sample_values, dom)

\* field_windows after get_stats asked the detector about the fields F:
\* calculate_drift_score, should_quarantine_field and generate_drift_report
\* look every field up
RECURSIVE field_windows_after_get_stats(_, _)
field_windows_after_get_stats(fw, F) ==
    IF F = {} THEN fw
    ELSE LET f == CHOOSE x \in F : TRUE
         IN  field_windows_after_get_stats(field_windows_after_lookup(fw, f),
                                           F \ {f})

\* Analyzer.get_stats() over the fields F: every mapping a run can return
RECURSIVE get_stats_of(_)
get_stats_of(F) ==
    IF F = {} THEN {<<>>}
    ELSE LET f == CHOOSE x \in F : TRUE
         IN  {Put(r, f, field_snapshot(f, smp, dom)) :
                 r \in get_stats_of(F \ {f}),
                 smp \in semantic_samples(stats[f].values_sample),
                 dom \in dominant_of(field_windows, f)}

get_stats == get_stats_of(DOMAIN stats)

----------------------------------------------------------------------------
(* classify_with_placement_heuristics (classifier.py) *)

\* s.get(key, default)
GetOr(s, key, default) == IF key \in DOMAIN s THEN s[key] ELSE default

\* the keys the loop body reads with s[...], in the order it reads them
RequiredKeys ==
    <<"freq", "types_count", "uniqueness_ratio", "stability", "nested",
      "has_type_conflict", "semantic_info", "composite_score">>

missing_keys(s) ==
    {i \in 1..Len(RequiredKeys) : RequiredKeys[i] \notin DOMAIN s}

\* the key of the KeyError the loop body raises on entry s
first_missing_key(s) ==
    RequiredKeys[CHOOSE i \in missing_keys(s) : \A j \in missing_keys(s) : i <= j]

StrongKinds == {"timestamp", "ip", "email", "uuid", "username"}

\* the rule chain on one entry that has every required key.  The reason
\* f"drift_quarantine_{quarantine_reason}" is kept as tag and detail.
placement_of(s) ==
    LET freq == s.freq
        types_count == s.types_count
        uniqueness_ratio == s.uniqueness_ratio
        stability == s.stability
        nested == s.nested
        has_type_conflict == s.has_type_conflict
        semantic_info == s.semantic_info
        composite_score == s.composite_score
        should_quarantine == GetOr(s, "should_quarantine", FALSE)
        quarantine_reason == GetOr(s, "quarantine_reason", [tag |-> "none"])
        drift_analysis == GetOr(s, "drift_analysis", <<>>)
        drift_score == GetOr(drift_analysis, "drift_score", R0)
        detected_kind == semantic_info.detected_kind
        is_long_text == semantic_info.is_long_text
        out(decision, tag, confidence) ==
            [decision |-> decision,
             reason |-> [tag |-> tag,
                         detail |-> IF tag = "drift_quarantine"
                                    THEN quarantine_reason ELSE [tag |-> "none"]],
             confidence |-> confidence,
             signals |-> [freq |-> freq,
                          uniqueness_ratio |-> uniqueness_ratio,
                          stability |-> stability,
                          semantic_type |-> detected_kind,
                          composite_score |-> composite_score,
                          types_count |-> types_count,
                          semantic_weight |-> semantic_info.semantic_weight,
                          drift_score |-> drift_score,
                          quarantine_reason |->
                              IF should_quarantine THEN quarantine_reason
                              ELSE [tag |-> "None"]]]
    IN  IF should_quarantine
        THEN out("mongo", "drift_quarantine",
                 RMax(<<1, 10>>, RSub(<<9, 10>>, drift_score)))
        ELSE IF has_type_conflict
        THEN out("mongo", "type_conflict_from_normalization",
                 RSub(<<9, 10>>, RMul(drift_score, <<1, 5>>)))
        ELSE IF nested
        THEN out("mongo", "nested_structure", R1)
        ELSE IF is_long_text
        THEN out("mongo", "long_text", <<85, 100>>)
        ELSE IF detected_kind = "json-like"
        THEN out("mongo", "json_like_structure", <<9, 10>>)
        ELSE IF /\ ~nested
                /\ RGe(freq, <<60, 100>>)
                /\ types_count = 1
                /\ RGe(stability, <<80, 100>>)
                /\ detected_kind \in StrongKinds
        THEN out("sql", "sql_strong_candidate", <<9, 10>>)
        ELSE IF /\ ~nested
                /\ RGe(freq, <<60, 100>>)
                /\ types_count = 1
                /\ RGe(stability, <<80, 100>>)
                /\ detected_kind = "categorical"
        THEN out("sql", "categorical_low_cardinality", <<8, 10>>)
        ELSE IF /\ RGe(uniqueness_ratio, <<70, 100>>)
                /\ RGe(freq, <<50, 100>>)
                /\ types_count = 1
        THEN out("sql", "semi_unique_field", <<75, 100>>)
        ELSE IF RGe(composite_score, <<65, 100>>)
        THEN out("sql", "composite_score_threshold",
                 RMin(<<9, 10>>, composite_score))
        ELSE out("mongo", "flexible_schema_default", <<6, 10>>)

\* the call left by an exception
raised_outcome(error, key) ==
    [raised |-> TRUE, error |-> error, key |-> key,
     decisions |-> <<>>, placement_reasons |-> <<>>]

\* return decisions, placement_reasons
returned_outcome(snap) ==
    [raised |-> FALSE, error |-> "none", key |-> "none",
     decisions |-> [f \in DOMAIN snap |-> placement_of(snap[f]).decision],
     placement_reasons |-> [f \in DOMAIN snap |-> placement_of(snap[f])]]

\* the entries on which the loop body raises KeyError
failing_entries(snap) == {f \in DOMAIN snap : missing_keys(snap[f]) # {}}

\* a classifier that reads its first entry before the loop
classify_reading_first_entry(snap) ==
    IF DOMAIN snap = {}
    THEN raised_outcome("StopIteration", "none")
    ELSE IF failing_entries(snap) # {}
    THEN raised_outcome("KeyError",
             first_missing_key(snap[CHOOSE f \in failing_entries(snap) : TRUE]))
    ELSE returned_outcome(snap)

\* classify_with_placement_heuristics(stats): the pair it returns, or the
\* KeyError that leaves it.  The entries of a snapshot are built alike, so
\* every entry that lacks a key lacks the same one.
classify_with_placement_heuristics(snap) ==
    IF failing_entries(snap) # {}
    THEN raised_outcome("KeyError",
             first_missing_key(snap[CHOOSE f \in failing_entries(snap) : TRUE]))
    ELSE returned_outcome(snap)

----------------------------------------------------------------------------
(* MetadataManager (metadata_manager.py).  A JSON string s is the record   *)
(* [str |-> s]; a profile is a record of its sections.  Of a profile the   *)
(* model keeps the sections an operation reads back or a caller is handed: *)
(* the decision, the type analysis, the placement reasoning, the schema    *)
(* evolution log and the timestamps.  The other sections are recomputed    *)
(* from the field name and the statistics on every update and are read by  *)
(* no operation modelled here.  datetime.now() is a number that grows      *)
(* with every call.                                                        *)

\* isinstance(v, str)
IsStr(v) == DOMAIN v = {"str"}

\* list(type_info)
ListOfTypes(S) == SortedTypes(S)

\* set(detected_types)
SetOfList(l) == {l[i] : i \in 1..Len(l)}

\* the profile update_field_metadata creates for a field it does not know
new_profile(field_name, current_time) ==
    [creation_timestamp |-> current_time,
     field_name |-> field_name,
     placement_decision |-> "None",
     type_analysis |-> <<>>,
     placement_reasoning |-> <<>>,
     schema_evolution |-> <<>>,
     last_updated |-> current_time]

\* a conversion that forgets the stored decision
legacy_profile_unknown(field_name, placement, current_time) ==
    [creation_timestamp |-> current_time,
     field_name |-> field_name,
     placement_decision |-> "unknown",
     type_analysis |-> [detected_types |-> <<>>, type_count |-> 0],
     placement_reasoning |-> [reason |-> "legacy_decision", confidence |-> R1],
     schema_evolution |-> <<>>,
     last_updated |-> current_time]

\* "placement_decision": placement, for the value the document gives the
\* field: a string is kept as it is; a value that is no string is kept as
\* well, and the model, which reads no decision's inside, keeps the name of
\* its type
decision_kept(placement) ==
    IF IsStr(placement) THEN placement.str ELSE "dict"

\* the profile _convert_simple_to_enhanced builds for one entry of the
\* document
legacy_profile(field_name, placement, current_time) ==
    [creation_timestamp |-> current_time,
     field_name |-> field_name,
     placement_decision |-> decision_kept(placement),
     type_analysis |-> [detected_types |-> <<>>, type_count |-> 0],
     placement_reasoning |-> [reason |-> "legacy_decision", confidence |-> R1],
     schema_evolution |-> <<>>,
     last_updated |-> current_time]

\* _convert_simple_to_enhanced(simple_metadata) on the profile map fm
convert_simple_to_enhanced(fm, simple_metadata, current_time) ==
    [f \in DOMAIN fm \cup DOMAIN simple_metadata |->
        IF f \in DOMAIN simple_metadata
        THEN legacy_profile(f, simple_metadata[f], current_time)
        ELSE fm[f]]

\* how load_metadata ends: the profile map it leaves, or the exception that
\* leaves it (only FileNotFoundError is caught)
loaded(fm) == [raised |-> FALSE, error |-> "none", field_metadata |-> fm]
load_raised(error) == [raised |-> TRUE, error |-> error, field_metadata |-> <<>>]

\* load_metadata on the store, called by __init__ on an empty profile map
load_metadata(file, current_time) ==
    IF file.kind = "missing" THEN loaded(<<>>)
    ELSE IF file.kind = "unreadable" THEN load_raised("PermissionError")
    ELSE IF file.kind = "invalid" THEN load_raised("JSONDecodeError")
    ELSE IF Len(file.keys) = 0 THEN load_raised("IndexError")
    ELSE IF IsStr(file.values[file.keys[1]])
    THEN loaded(convert_simple_to_enhanced(<<>>, file.values, current_time))
    ELSE loaded(file.values)

\* _schema_changed(field_name, stats) on the profile map fm
schema_changed(fm, field_name, field_stats) ==
    IF field_name \notin DOMAIN fm THEN FALSE
    ELSE LET type_analysis == GetOr(fm[field_name], "type_analysis", <<>>)
             old_types == SetOfList(GetOr(type_analysis, "detected_types", <<>>))
             new_types == GetOr(field_stats, "types", {})
         IN  IF GetOr(field_stats, "types_as_list", FALSE)
             THEN TRUE   \* a set is never equal to a list
             ELSE old_types # new_types

\* update_field_metadata that writes the decision of a new profile only
update_field_metadata_keep_decision(fm, field_name, field_stats, placement_info, current_time) ==
    LET created == IF field_name \notin DOMAIN fm
                   THEN Put(fm, field_name, new_profile(field_name, current_time))
                   ELSE fm
        type_info == GetOr(field_stats, "types", {})
        overwritten ==
            [created[field_name] EXCEPT
                !.last_updated = current_time,
                !.placement_decision =
                    IF @ = "None" THEN GetOr(placement_info, "decision", "unknown")
                    ELSE @,
                !.type_analysis =
                    [detected_types |-> ListOfTypes(type_info),
                     type_count |-> Cardinality(type_info)],
                !.placement_reasoning =
                    [reason |-> GetOr(placement_info, "reason", "unknown"),
                     confidence |-> GetOr(placement_info, "confidence", R0)]]
        written == Put(created, field_name, overwritten)
        logged ==
            IF schema_changed(written, field_name, field_stats)
            THEN [overwritten EXCEPT !.schema_evolution =
                     Append(@, [timestamp |-> current_time,
                                change_type |-> "type_evolution",
                                old_types |-> overwritten.type_analysis.detected_types,
                                new_types |-> ListOfTypes(type_info),
                                impact_assessment |-> "medium"])]
            ELSE overwritten
    IN  Put(created, field_name, logged)

\* update_field_metadata that builds the profile anew on every call
update_field_metadata_recreate(fm, field_name, field_stats, placement_info, current_time) ==
    LET created == Put(fm, field_name, new_profile(field_name, current_time))
        type_info == GetOr(field_stats, "types", {})
        overwritten ==
            [created[field_name] EXCEPT
                !.last_updated = current_time,
                !.placement_decision = GetOr(placement_info, "decision", "unknown"),
                !.type_analysis =
                    [detected_types |-> ListOfTypes(type_info),
                     type_count |-> Cardinality(type_info)],
                !.placement_reasoning =
                    [reason |-> GetOr(placement_info, "reason", "unknown"),
                     confidence |-> GetOr(placement_info, "confidence", R0)]]
        written == Put(created, field_name, overwritten)
        logged ==
            IF schema_changed(written, field_name, field_stats)
            THEN [overwritten EXCEPT !.schema_evolution =
                     Append(@, [timestamp |-> current_time,
                                change_type |-> "type_evolution",
                                old_types |-> overwritten.type_analysis.detected_types,
                                new_types |-> ListOfTypes(type_info),
                                impact_assessment |-> "medium"])]
            ELSE overwritten
    IN  Put(created, field_name, logged)

\* update_field_metadata(field_name, stats, placement_info, analyzer_stats):
\* the profile map afterwards.  _schema_changed is called after the type
\* analysis of the profile was overwritten, and reads the profile.
update_field_metadata(fm, field_name, field_stats, placement_info, current_time) ==
    LET created == IF field_name \notin DOMAIN fm
                   THEN Put(fm, field_name, new_profile(field_name, current_time))
                   ELSE fm
        type_info == GetOr(field_stats, "types", {})
        overwritten ==
            [created[field_name] EXCEPT
                !.last_updated = current_time,
                !.placement_decision = GetOr(placement_info, "decision", "unknown"),
                !.type_analysis =
                    [detected_types |-> ListOfTypes(type_info),
                     type_count |-> Cardinality(type_info)],
                !.placement_reasoning =
                    [reason |-> GetOr(placement_info, "reason", "unknown"),
                     confidence |-> GetOr(placement_info, "confidence", R0)]]
        written == Put(created, field_name, overwritten)
        logged ==
            IF schema_changed(written, field_name, field_stats)
            THEN [overwritten EXCEPT !.schema_evolution =
                     Append(@, [timestamp |-> current_time,
                                change_type |-> "type_evolution",
                                old_types |-> overwritten.type_analysis.detected_types,
                                new_types |-> ListOfTypes(type_info),
                                impact_assessment |-> "medium"])]
            ELSE overwritten
    IN  Put(created, field_name, logged)

\* get_simple_placement_decisions()
get_simple_placement_decisions(fm) ==
    [f \in DOMAIN fm |-> GetOr(fm[f], "placement_decision", "mongo")]

\* get_simple_placement_decisions(): the exception that leaves the call.
\* field_data.get is the dict method; an entry that is a string has none
get_simple_raised(fm) ==
    IF \E f \in DOMAIN fm : IsStr(fm[f]) THEN "AttributeError" ELSE "none"

\* the fields of the model in the order a saved document lists them
FieldOrder == <<"age", "user_id">>

RECURSIVE KeysFrom(_, _)
KeysFrom(F, i) ==
    IF i > Len(FieldOrder) THEN <<>>
    ELSE (IF FieldOrder[i] \in F THEN <<FieldOrder[i]>> ELSE <<>>)
         \o KeysFrom(F, i + 1)

\* the document json.dump(self.field_metadata, f, indent=2, default=str)
\* writes when it completes
json_dump(fm) ==
    [kind |-> "doc", keys |-> KeysFrom(DOMAIN fm, 1), values |-> fm]

\* a store that cannot be parsed: a write that stopped part-way
partial_file == [kind |-> "invalid", keys |-> <<>>, values |-> <<>>]

\* save_metadata(): the store afterwards.  open(..., 'w') empties the file
\* before anything is written; every exception is caught and printed.
save_metadata(file, fm, outcome) ==
    IF outcome = "saved" THEN json_dump(fm)
    ELSE IF outcome = "open_failed" THEN file
    ELSE partial_file

\* a save_metadata that lets the exception of a failed save escape
save_raised_on_failure(outcome) ==
    IF outcome = "saved" THEN "none" ELSE "OSError"

\* save_metadata(): the exception that leaves the call.  The whole body is
\* inside try / except Exception, which prints the error and returns.
save_raised(outcome) == "none"

----------------------------------------------------------------------------
(* The caller: the record loop of main.py (update, get_stats, classify),  *)
(* which may also take a snapshot before the first record.                 *)

\* records of the free-running source
FreeRecords ==
    {[age |-> V_str30],
     [age |-> V_int30],
     [age |-> V_dict],
     [user_id |-> V_uuid],
     [age |-> V_str30, user_id |-> V_uuid]}

\* the scenario source sends 'age' as a string for `switch` batches and as
\* an integer afterwards, for ten batches; one more record closes batch 10
ScenarioLength == 10 * DefaultBatchSize

\* the counting source sends 'seq', a number that is new with every
\* record, as an integer for `switch` batches and as an integer or a string
\* in turn afterwards, for two batches more than the sample holds
CountLength == SampleCap + 2 * DefaultBatchSize

\* the records the source can emit as record number n
Emits(src, n) ==
    IF src.kind = "free" THEN FreeRecords
    ELSE IF src.kind = "main" THEN FreeRecords \cup {<<>>}
    ELSE IF src.kind = "age"
    THEN IF n <= src.switch * DefaultBatchSize THEN {[age |-> V_str30]}
         ELSE IF n <= ScenarioLength THEN {[age |-> V_int30]}
         ELSE {[age |-> V_str30], [age |-> V_int30], <<>>}
    ELSE IF src.kind = "count"
    THEN IF n <= src.switch * DefaultBatchSize \/ n % 2 = 1
         THEN {[seq |-> V_num("int", n)]}
         ELSE {[seq |-> V_num("str", n)]}
    ELSE {}

\* how many records the source emits
Limit(src) ==
    IF src.kind = "free" THEN MaxRecords
    ELSE IF src.kind = "main" THEN StopAfter
    ELSE IF src.kind = "age" THEN ScenarioLength + 1
    ELSE IF src.kind = "count" THEN CountLength
    ELSE 0

NoSnapshot == [taken |-> FALSE, raised |-> FALSE, value |-> <<>>]
NotClassified ==
    [called |-> FALSE, raised |-> FALSE, error |-> "none", key |-> "none",
     decisions |-> <<>>, placement_reasons |-> <<>>]
NoVerdict ==
    [asked |-> FALSE, field |-> "none", at |-> 0, should_quarantine |-> FALSE,
     reason |-> [tag |-> "none"], drift_analysis |-> <<>>]

\* Analyzer() and its TypeDriftDetector(window_size=50, drift_threshold=0.20)
InitCore(bsize, wsize) ==
    /\ total = 0
    /\ batch_size = bsize
    /\ current_batch = 0
    /\ stats = <<>>
    /\ batch_types_tracking = <<>>
    /\ window_size = wsize
    /\ field_windows = <<>>
    /\ type_sequences = <<>>
    /\ quarantined_fields = {}
    /\ drift_events = <<>>
    /\ snapshot = NoSnapshot
    /\ classified = NotClassified
    /\ verdict = NoVerdict

\* no store and no MetadataManager constructed
absent_file == [kind |-> "missing", keys |-> <<>>, values |-> <<>>]
NoManager ==
    [state |-> "none", error |-> "none", placement_info |-> <<>>,
     result |-> <<>>, saved |-> "none"]
InitNoManager ==
    /\ metadata_file = absent_file
    /\ field_metadata = <<>>
    /\ manager = NoManager
    /\ metadata = <<>>

Init ==
    /\ InitCore(BatchSize, DefaultWindowSize)
    /\ InitNoManager
    /\ pc = "idle"
    /\ source = [kind |-> "free", switch |-> 0, calls |-> 0,
                 op |-> "none", field |-> "none", record |-> <<>>]

\* analyzer.update(record)
Update ==
    /\ pc = "idle"
    /\ total < Limit(source)
    /\ \E record \in Emits(source, total + 1) :
          /\ AnalyzerUpdate(record)
          /\ source' = [source EXCEPT !.record = record]
    /\ pc' = "updated"
    /\ UNCHANGED <<snapshot, classified, verdict>>
    /\ UNCHANGED metadata_vars

\* stats = analyzer.get_stats()
GetStats ==
    /\ pc \in {"idle", "updated"}
    /\ IF total = 0 /\ DOMAIN stats # {}
       THEN \* freq = s["count"] / self.total raises ZeroDivisionError, after
            \* the detector was asked about the first field
            /\ snapshot' = [taken |-> TRUE, raised |-> TRUE, value |-> <<>>]
            /\ \E f \in DOMAIN stats :
                   field_windows' = field_windows_after_lookup(field_windows, f)
       ELSE /\ \E m \in get_stats :
                   snapshot' = [taken |-> TRUE, raised |-> FALSE, value |-> m]
            /\ field_windows' =
                   field_windows_after_get_stats(field_windows, DOMAIN stats)
    /\ pc' = "stats"
    /\ UNCHANGED <<analyzer_vars, window_size, type_sequences,
                   quarantined_fields, drift_events, classified, verdict, source>>
    /\ UNCHANGED metadata_vars

\* current_decisions, placement_reasons = classify_with_placement_heuristics(stats)
Classify ==
    /\ pc = "stats"
    /\ ~snapshot.raised
    /\ classified' =
           [called |-> TRUE] @@ classify_with_placement_heuristics(snapshot.value)
    /\ pc' = "idle"
    /\ UNCHANGED <<analyzer_vars, detector_vars, snapshot, verdict, source>>
    /\ UNCHANGED metadata_vars

Next == Update \/ GetStats \/ Classify

Spec == Init /\ [][Next]_vars

----------------------------------------------------------------------------
(* The scenario of a field that changes its type: the Analyzer as         *)
(* constructed (batch_size 10, window 50), the source sending 'age' as a  *)
(* string for the first batch or the first five batches, then as integer. *)

InitAge ==
    /\ InitCore(DefaultBatchSize, DefaultWindowSize)
    /\ InitNoManager
    /\ pc = "idle"
    /\ \E k \in {1, 5} : source = [kind |-> "age", switch |-> k, calls |-> 0,
                                op |-> "none", field |-> "none", record |-> <<>>]

SpecAge == InitAge /\ [][Next]_vars

----------------------------------------------------------------------------
(* A caller that only feeds the analyzer: the Analyzer as constructed and *)
(* the counting source, with no snapshot taken.                            *)

InitCount ==
    /\ InitCore(DefaultBatchSize, DefaultWindowSize)
    /\ InitNoManager
    /\ pc = "feeding"
    /\ \E k \in {0, 1, 2} :
          source = [kind |-> "count", switch |-> k, calls |-> 0,
                    op |-> "none", field |-> "none", record |-> <<>>]

\* analyzer.update(record)
Feed ==
    /\ pc = "feeding"
    /\ total < Limit(source)
    /\ \E record \in Emits(source, total + 1) :
          /\ AnalyzerUpdate(record)
          /\ source' = [source EXCEPT !.record = record]
    /\ UNCHANGED <<snapshot, classified, verdict, pc>>
    /\ UNCHANGED metadata_vars

NextCount == Feed

SpecCount == InitCount /\ [][NextCount]_vars

----------------------------------------------------------------------------
(* The detector on its own: a caller that reports batches, quarantines    *)
(* fields and asks for verdicts directly.                                  *)

DetectorFields == {"age", "user_id"}
DetectorTypeSets == {{"str"}, {"int"}, {"int", "str"}}

InitDetector ==
    /\ \E wsize \in {SmallWindow, DefaultWindowSize} :
          InitCore(DefaultBatchSize, wsize)
    /\ InitNoManager
    /\ pc = "detector"
    /\ source = [kind |-> "detector", switch |-> 0, calls |-> 0,
                 op |-> "none", field |-> "none", record |-> <<>>]

\* one more call by the direct caller: operation op on the field
Called(op, field) ==
    source' = [source EXCEPT !.calls = @ + 1, !.op = op, !.field = field]

\* detector.update_field_types(field, batch_types)
UpdateFieldTypes ==
    /\ pc = "detector"
    /\ source.calls < MaxCalls
    /\ \E field \in DetectorFields, batch_types \in DetectorTypeSets :
          /\ type_sequences' =
                 Put(type_sequences, field,
                     new_type_sequence(type_sequences, field, batch_types))
          /\ field_windows' =
                 Put(field_windows, field,
                     new_field_window(field_windows, field, batch_types, window_size))
          /\ Called("update_field_types", field)
    /\ UNCHANGED <<analyzer_vars, window_size, quarantined_fields, drift_events,
                   snapshot, classified, verdict, pc>>
    /\ UNCHANGED metadata_vars

\* detector.quarantine_field(field)
QuarantineField ==
    /\ pc = "detector"
    /\ source.calls < MaxCalls
    /\ \E field \in DetectorFields :
          /\ IF field \notin quarantined_fields
             THEN /\ quarantined_fields' = quarantined_fields \cup {field}
                  /\ drift_events' =
                         Append(drift_events,
                                [field |-> field, action |-> "quarantined",
                                 reason |-> "manual",
                                 timestamp |-> Len(drift_events)])
             ELSE UNCHANGED <<quarantined_fields, drift_events>>
          /\ Called("quarantine_field", field)
    /\ UNCHANGED <<analyzer_vars, window_size, field_windows, type_sequences,
                   snapshot, classified, verdict, pc>>
    /\ UNCHANGED metadata_vars

\* detector.should_quarantine_field(field)
ShouldQuarantineField ==
    /\ pc = "detector"
    /\ source.calls < MaxCalls
    /\ \E field \in DetectorFields :
       \E da \in calculate_drift_score(field_windows, type_sequences, field) :
          /\ verdict' = [asked |-> TRUE, field |-> field, at |-> source.calls + 1]
                        @@ should_quarantine_field(quarantined_fields, field, da)
          /\ field_windows' = field_windows_after_lookup(field_windows, field)
          /\ Called("should_quarantine_field", field)
    /\ UNCHANGED <<analyzer_vars, window_size, type_sequences, quarantined_fields,
                   drift_events, snapshot, classified, pc>>
    /\ UNCHANGED metadata_vars

NextDetector == UpdateFieldTypes \/ QuarantineField \/ ShouldQuarantineField

SpecDetector == InitDetector /\ [][NextDetector]_vars

----------------------------------------------------------------------------
(* The MetadataManager on its own: a process constructs it on the store,  *)
(* reports fields, saves and projects; constructing it again is a restart. *)

\* the stores a process can find
InitialFiles ==
    {absent_file,
     [kind |-> "unreadable", keys |-> <<>>, values |-> <<>>],
     [kind |-> "invalid", keys |-> <<>>, values |-> <<>>],
     [kind |-> "doc", keys |-> <<>>, values |-> <<>>],
     [kind |-> "doc", keys |-> <<"age">>, values |-> [age |-> [str |-> "sql"]]],
     [kind |-> "doc", keys |-> <<"age", "user_id">>,
      values |-> [age |-> [str |-> "sql"], user_id |-> [str |-> "mongo"]]]}

ManagerFields == {"age", "user_id"}

\* the statistics and the placement the caller hands over for a field; the
\* types of the statistics are a set, as get_stats gives them, or a list
\* (types_as_list), which a caller of the manager may pass as well
ManagerReports ==
    {[stats |-> [types |-> {"int"}, types_as_list |-> TRUE],
      placement_info |-> [decision |-> "sql", reason |-> "semi_unique_field",
                          confidence |-> <<3, 4>>]],
     [stats |-> [types |-> {"str"}],
      placement_info |-> [decision |-> "sql", reason |-> "semi_unique_field",
                          confidence |-> <<3, 4>>]],
     [stats |-> [types |-> {"int", "str"}],
      placement_info |-> [decision |-> "mongo", reason |-> "drift_quarantine",
                          confidence |-> <<2, 5>>]],
     [stats |-> [types |-> {"str"}],
      placement_info |-> <<>>]}

SaveOutcomes == {"saved", "open_failed", "write_failed"}

InitMetadata ==
    /\ InitCore(DefaultBatchSize, DefaultWindowSize)
    /\ metadata_file \in InitialFiles
    /\ field_metadata = <<>>
    /\ manager = NoManager
    /\ metadata = <<>>
    /\ pc = "manager"
    /\ source = [kind |-> "manager", switch |-> 0, calls |-> 0,
                 op |-> "none", field |-> "none", record |-> <<>>]

\* MetadataManager(): __init__ empties the profile map and loads the store
Construct ==
    /\ pc = "manager"
    /\ source.calls < MaxManagerCalls
    /\ LET out == load_metadata(metadata_file, source.calls + 1)
       IN  /\ field_metadata' = out.field_metadata
           /\ manager' = [NoManager EXCEPT
                             !.state = IF out.raised THEN "failed" ELSE "ready",
                             !.error = out.error]
    /\ Called("construct", "none")
    /\ UNCHANGED <<analyzer_vars, detector_vars, snapshot, classified, verdict,
                   pc, metadata_file, metadata>>

\* metadata_mgr.update_field_metadata(field_name, stats, placement_info, totals)
UpdateFieldMetadata ==
    /\ pc = "manager"
    /\ manager.state = "ready"
    /\ source.calls < MaxManagerCalls
    /\ \E field_name \in ManagerFields, report \in ManagerReports :
          /\ field_metadata' =
                 update_field_metadata(field_metadata, field_name, report.stats,
                                       report.placement_info, source.calls + 1)
          /\ manager' = [manager EXCEPT !.placement_info = report.placement_info]
          /\ Called("update_field_metadata", field_name)
    /\ UNCHANGED <<analyzer_vars, detector_vars, snapshot, classified, verdict,
                   pc, metadata_file, metadata>>

\* metadata_mgr.save_metadata()
SaveMetadata ==
    /\ pc = "manager"
    /\ manager.state = "ready"
    /\ source.calls < MaxManagerCalls
    /\ \E outcome \in SaveOutcomes :
          /\ metadata_file' = save_metadata(metadata_file, field_metadata, outcome)
          /\ manager' = [manager EXCEPT !.saved = outcome,
                                        !.error = save_raised(outcome)]
    /\ Called("save_metadata", "none")
    /\ UNCHANGED <<analyzer_vars, detector_vars, snapshot, classified, verdict,
                   pc, field_metadata, metadata>>

\* metadata_mgr.get_simple_placement_decisions()
GetSimplePlacementDecisions ==
    /\ pc = "manager"
    /\ manager.state = "ready"
    /\ source.calls < MaxManagerCalls
    /\ manager' = [manager EXCEPT
                      !.result =
                          IF get_simple_raised(field_metadata) = "none"
                          THEN get_simple_placement_decisions(field_metadata)
                          ELSE <<>>,
                      !.error = get_simple_raised(field_metadata)]
    /\ Called("get_simple_placement_decisions", "none")
    /\ UNCHANGED <<analyzer_vars, detector_vars, snapshot, classified, verdict,
                   pc, metadata_file, field_metadata, metadata>>

NextMetadata ==
    Construct \/ UpdateFieldMetadata \/ SaveMetadata \/ GetSimplePlacementDecisions

SpecMetadata == InitMetadata /\ [][NextMetadata]_vars

----------------------------------------------------------------------------
(* A process that only reads the store: it constructs the MetadataManager *)
(* on a document an earlier process left and asks for the decisions.  The  *)
(* document gives each field a legacy decision string or a full profile.   *)

StoredDecisions == {"sql", "mongo"}

\* the profile an earlier process saved for the field
stored_profile(field_name, decision) ==
    update_field_metadata(<<>>, field_name, [types |-> {"str"}],
                          [decision |-> decision, reason |-> "semi_unique_field",
                           confidence |-> <<3, 4>>], 0)[field_name]

\* the values a stored document can give the field
StoredValues(field_name) ==
    {[str |-> d] : d \in StoredDecisions}
    \cup {stored_profile(field_name, d) : d \in StoredDecisions}

\* the stored documents of one or two fields, in either order of the keys
StoredDocuments ==
    {[kind |-> "doc", keys |-> <<f>>, values |-> (f :> v)] :
        f \in ManagerFields, v \in UNION {StoredValues(g) : g \in ManagerFields}}
    \cup
    {[kind |-> "doc", keys |-> <<f, g>>, values |-> (f :> v) @@ (g :> w)] :
        f \in ManagerFields, g \in ManagerFields,
        v \in UNION {StoredValues(h) : h \in ManagerFields},
        w \in UNION {StoredValues(h) : h \in ManagerFields}}

InitLoad ==
    /\ InitCore(DefaultBatchSize, DefaultWindowSize)
    /\ metadata_file \in
           {d \in StoredDocuments :
               /\ \A i \in 1..Len(d.keys), j \in 1..Len(d.keys) :
                      i # j => d.keys[i] # d.keys[j]
               /\ \A f \in DOMAIN d.values :
                      d.values[f] \in StoredValues(f)}
    /\ field_metadata = <<>>
    /\ manager = NoManager
    /\ metadata = <<>>
    /\ pc = "manager"
    /\ source = [kind |-> "manager", switch |-> 0, calls |-> 0,
                 op |-> "none", field |-> "none", record |-> <<>>]

NextLoad == Construct \/ GetSimplePlacementDecisions

SpecLoad == InitLoad /\ [][NextLoad]_vars

----------------------------------------------------------------------------
(* The program main.py: it constructs the MetadataManager on the store,   *)
(* fills the routing cache from it and runs the record loop; an exception *)
(* other than KeyboardInterrupt leaves the loop through the finally       *)
(* block, which saves the profiles.                                        *)

\* for field, decision in current_decisions.items():
\*     if field not in metadata: metadata[field] = decision
cache_new_fields(cache, current_decisions) ==
    [f \in DOMAIN cache \cup DOMAIN current_decisions |->
        IF f \in DOMAIN cache THEN cache[f] ELSE current_decisions[f]]

\* metadata.update(metadata_mgr.get_simple_placement_decisions())
cache_refreshed(cache, simple) ==
    [f \in DOMAIN cache \cup DOMAIN simple |->
        IF f \in DOMAIN simple THEN simple[f] ELSE cache[f]]

\* for field_name, field_stats in stats.items():
\*     metadata_mgr.update_field_metadata(field_name, field_stats,
\*         placement_reasons.get(field_name, {}), analyzer_total_stats)
RECURSIVE update_all_fields(_, _, _, _, _)
update_all_fields(fm, snap, placement_reasons, fields, current_time) ==
    IF fields = <<>> THEN fm
    ELSE LET field_name == Head(fields)
             reasons == GetOr(placement_reasons, field_name, <<>>)
             field_placement ==
                 IF DOMAIN reasons = {} THEN <<>>
                 ELSE [decision |-> reasons.decision,
                       reason |-> reasons.reason.tag,
                       confidence |-> reasons.confidence]
         IN  update_all_fields(
                 update_field_metadata(fm, field_name, snap[field_name],
                                       field_placement, current_time),
                 snap, placement_reasons, Tail(fields), current_time + 1)

InitMain ==
    /\ InitCore(DefaultBatchSize, DefaultWindowSize)
    /\ metadata_file \in InitialFiles
    /\ field_metadata = <<>>
    /\ manager = NoManager
    /\ metadata = <<>>
    /\ pc = "main_start"
    /\ source = [kind |-> "main", switch |-> 0, calls |-> 0,
                 op |-> "none", field |-> "none", record |-> <<>>]

\* metadata_mgr = MetadataManager()
\* metadata = metadata_mgr.get_simple_placement_decisions()
MainStart ==
    /\ pc = "main_start"
    /\ LET out == load_metadata(metadata_file, source.calls + 1)
       IN  /\ field_metadata' = out.field_metadata
           /\ manager' = [NoManager EXCEPT
                             !.state = IF out.raised THEN "failed" ELSE "ready",
                             !.error = out.error]
           /\ metadata' = get_simple_placement_decisions(out.field_metadata)
           /\ pc' = IF out.raised THEN "main_raised" ELSE "main_loop"
    /\ Called("construct", "none")
    /\ UNCHANGED <<analyzer_vars, detector_vars, snapshot, classified, verdict,
                   metadata_file>>

\* for i, record in enumerate(stream_records(...)): analyzer.update(record)
MainUpdate ==
    /\ pc = "main_loop"
    /\ total < Limit(source)
    /\ \E record \in Emits(source, total + 1) :
          /\ AnalyzerUpdate(record)
          /\ source' = [source EXCEPT !.record = record]
    /\ pc' = "main_updated"
    /\ UNCHANGED <<snapshot, classified, verdict>>
    /\ UNCHANGED metadata_vars

\* stats = analyzer.get_stats()
MainGetStats ==
    /\ pc = "main_updated"
    /\ \E m \in get_stats :
           snapshot' = [taken |-> TRUE, raised |-> FALSE, value |-> m]
    /\ field_windows' = field_windows_after_get_stats(field_windows, DOMAIN stats)
    /\ pc' = "main_stats"
    /\ UNCHANGED <<analyzer_vars, window_size, type_sequences,
                   quarantined_fields, drift_events, classified, verdict, source>>
    /\ UNCHANGED metadata_vars

\* if len(stats) > 0: classify and update the profile of every field;
\* else: current_decisions = {}.  An exception of the classifier leaves the
\* loop.
MainClassify ==
    /\ pc = "main_stats"
    /\ IF DOMAIN snapshot.value = {}
       THEN /\ classified' = NotClassified
            /\ pc' = "main_decided"
            /\ UNCHANGED <<field_metadata, source>>
       ELSE LET out == classify_with_placement_heuristics(snapshot.value)
            IN  /\ classified' = [called |-> TRUE] @@ out
                /\ IF out.raised
                   THEN /\ pc' = "main_raising"
                        /\ UNCHANGED <<field_metadata, source>>
                   ELSE /\ pc' = "main_decided"
                        /\ field_metadata' =
                               update_all_fields(field_metadata, snapshot.value,
                                   out.placement_reasons,
                                   KeysFrom(DOMAIN snapshot.value, 1),
                                   source.calls + 1)
                        /\ source' = [source EXCEPT
                               !.calls = @ + Cardinality(DOMAIN snapshot.value),
                               !.op = "update_field_metadata"]
    /\ UNCHANGED <<analyzer_vars, detector_vars, snapshot, verdict,
                   metadata_file, manager, metadata>>

\* the decisions of fields the cache does not hold enter the cache
MainCache ==
    /\ pc = "main_decided"
    /\ metadata' = cache_new_fields(metadata, classified.decisions)
    /\ pc' = "main_cached"
    /\ UNCHANGED <<analyzer_vars, detector_vars, snapshot, classified, verdict,
                   source, metadata_file, field_metadata, manager>>

\* every tenth record: refresh the cache from the manager and save; then
\* storage.store_record(record, metadata) and the test for the last record
MainRefresh ==
    /\ pc = "main_cached"
    /\ IF total % RefreshEvery = 0
       THEN /\ metadata' = cache_refreshed(metadata,
                               get_simple_placement_decisions(field_metadata))
            /\ \E outcome \in SaveOutcomes :
                  /\ metadata_file' =
                         save_metadata(metadata_file, field_metadata, outcome)
                  /\ manager' = [manager EXCEPT !.saved = outcome,
                                                !.error = save_raised(outcome)]
       ELSE UNCHANGED <<metadata, metadata_file, manager>>
    /\ pc' = IF total >= StopAfter THEN "main_stopping" ELSE "main_loop"
    /\ UNCHANGED <<analyzer_vars, detector_vars, snapshot, classified, verdict,
                   source, field_metadata>>

\* finally: metadata_mgr.save_metadata()
MainFinally ==
    /\ pc \in {"main_stopping", "main_raising"}
    /\ \E outcome \in SaveOutcomes :
          /\ metadata_file' = save_metadata(metadata_file, field_metadata, outcome)
          /\ manager' = [manager EXCEPT !.saved = outcome,
                                        !.error = save_raised(outcome)]
    /\ pc' = IF pc = "main_raising" THEN "main_raised" ELSE "main_done"
    /\ UNCHANGED <<analyzer_vars, detector_vars, snapshot, classified, verdict,
                   source, field_metadata, metadata>>

NextMain ==
    MainStart \/ MainUpdate \/ MainGetStats \/ MainClassify \/ MainCache
        \/ MainRefresh \/ MainFinally

SpecMain == InitMain /\ [][NextMain]_vars

----------------------------------------------------------------------------
(* Properties *)

\* the classifier outcome at hand is that of the current snapshot, which is
\* the snapshot of the current statistics
Classified == pc = "idle" /\ classified.called
Fresh == pc \in {"stats", "idle"} /\ snapshot.taken /\ ~snapshot.raised

\* the verdict at hand was returned by the latest detector call
FreshVerdict == verdict.asked /\ verdict.at = source.calls

\* C1: for every snapshot of get_stats taken after one or more updates, the
\* classifier returns a decision and a reason for every field of the
\* snapshot and raises nothing.
C1_ClassifierCoversSnapshot ==
    (Classified /\ total > 0) =>
        /\ ~classified.raised
        /\ DOMAIN classified.decisions = DOMAIN snapshot.value
        /\ DOMAIN classified.placement_reasons = DOMAIN snapshot.value

\* C2: the quarantine set never loses a field, and every verdict asked for
\* a field of the set is should_quarantine with reason already_quarantined,
\* whatever batches were reported in between.
C2_QuarantineMonotonic ==
    [][/\ quarantined_fields \subseteq quarantined_fields'
       /\ (verdict'.at # verdict.at /\ verdict'.field \in quarantined_fields) =>
              /\ verdict'.should_quarantine
              /\ verdict'.reason.tag = "already_quarantined"]_vars

\* C2 witness: a quarantined field whose whole window shows the one type
\* 'str' in at least two batches is asked about and reported quarantined.
C2_Witness ==
    /\ FreshVerdict
    /\ verdict.field \in quarantined_fields
    /\ verdict.field \in DOMAIN field_windows
    /\ Len(field_windows[verdict.field]) >= 2
    /\ \A i \in 1..Len(field_windows[verdict.field]) :
           field_windows[verdict.field][i].types = {"str"}
    /\ verdict.should_quarantine
    /\ verdict.reason.tag = "already_quarantined"

\* C3: once a snapshot has reported should_quarantine for a field, every
\* later snapshot reports should_quarantine for it.
C3_SnapshotQuarantineSticky ==
    [][(snapshot.taken /\ snapshot'.taken) =>
          \A f \in DOMAIN snapshot.value :
              snapshot.value[f].should_quarantine =>
                  /\ f \in DOMAIN snapshot'.value
                  /\ snapshot'.value[f].should_quarantine]_vars

\* the drift score by its definition: 1 - (most votes) / (retained batches),
\* one vote per retained batch that shows the type; 0 below two batches
DriftOf(field) ==
    LET w == ListOf(field_windows, field)
        n == Len(w)
        seen == UNION {w[i].types : i \in 1..n}
        votes(t) == Cardinality({i \in 1..n : t \in w[i].types})
    IN  IF n < 2 \/ seen = {} THEN R0
        ELSE Rat(n - (CHOOSE m \in {votes(t) : t \in seen} :
                          \A t \in seen : votes(t) <= m), n)

\* drift_score >= 0.20 as the doubles compare: the score 1.0 - 0.8 is
\* 0.19999999999999996
ReachesThreshold(score) == RGe(score, <<1, 5>>) /\ score # <<1, 5>>

\* C4: should_quarantine_field is a priority chain: in the quarantine set ->
\* true, already_quarantined; else drift score >= 0.20 -> true, reason with
\* the score and the flip patterns; else two or more flip patterns -> true,
\* multiple_flip_patterns; else false, stable.
C4_PriorityChain ==
    FreshVerdict =>
        LET f == verdict.field
            score == DriftOf(f)
            flips == detect_flip_patterns(type_sequences, f)
        IN  IF f \in quarantined_fields
            THEN /\ verdict.should_quarantine
                 /\ verdict.reason = [tag |-> "already_quarantined"]
            ELSE IF ReachesThreshold(score)
            THEN /\ verdict.should_quarantine
                 /\ verdict.reason = [tag |-> "high_drift_score",
                                      score |-> score, patterns |-> flips]
            ELSE IF Cardinality(flips) >= 2
            THEN /\ verdict.should_quarantine
                 /\ verdict.reason = [tag |-> "multiple_flip_patterns",
                                      patterns |-> flips]
            ELSE /\ ~verdict.should_quarantine
                 /\ verdict.reason = [tag |-> "stable"]

\* C4 witness: a field outside the quarantine set with drift at or above
\* the threshold and two flip patterns gets the drift reason, not the
\* flip-pattern one.
C4_Witness ==
    /\ FreshVerdict
    /\ verdict.field \notin quarantined_fields
    /\ ReachesThreshold(DriftOf(verdict.field))
    /\ Cardinality(detect_flip_patterns(type_sequences, verdict.field)) >= 2
    /\ verdict.should_quarantine
    /\ verdict.reason.tag = "high_drift_score"

\* C5: a field that has ever carried a nested value is decided 'mongo' on
\* every snapshot taken afterwards.
C5_NestedAlwaysDocument ==
    Classified =>
        \A f \in DOMAIN stats :
            stats[f].nested =>
                /\ ~classified.raised
                /\ f \in DOMAIN classified.decisions
                /\ classified.decisions[f] = "mongo"

\* C6: every field whose snapshot shows more than one observed type is
\* decided 'mongo'.
C6_MultiTypeAlwaysDocument ==
    Classified =>
        \A f \in DOMAIN snapshot.value :
            snapshot.value[f].types_count > 1 =>
                /\ ~classified.raised
                /\ f \in DOMAIN classified.decisions
                /\ classified.decisions[f] = "mongo"

\* C7: whenever the snapshot marks a field should_quarantine, the decision
\* is 'mongo' with a drift-quarantine reason and confidence
\* max(0.1, 0.9 - drift_score).
C7_QuarantineRuleFirst ==
    Classified =>
        \A f \in DOMAIN snapshot.value :
            snapshot.value[f].should_quarantine =>
                /\ ~classified.raised
                /\ f \in DOMAIN classified.placement_reasons
                /\ classified.placement_reasons[f].decision = "mongo"
                /\ classified.placement_reasons[f].reason.tag = "drift_quarantine"
                /\ classified.placement_reasons[f].confidence =
                       RMax(<<1, 10>>,
                            RSub(<<9, 10>>,
                                 snapshot.value[f].drift_analysis.drift_score))

\* C9: when update was never called, get_stats returns an empty mapping
\* without raising and classifying it returns two empty maps without error.
C9_ColdStart ==
    total = 0 =>
        /\ snapshot.taken => (~snapshot.raised /\ snapshot.value = <<>>)
        /\ classified.called =>
               /\ ~classified.raised
               /\ classified.decisions = <<>>
               /\ classified.placement_reasons = <<>>

\* C9 witness: before the first record a snapshot was taken and classified.
C9_Witness ==
    /\ total = 0
    /\ snapshot.taken
    /\ snapshot.value = <<>>
    /\ classified.called
    /\ ~classified.raised

\* the scenario of C10 after batch 10 was processed: 'age' was a string in
\* batches 1-5, an integer in batches 6-10, and record 101 has arrived
AfterBatch10 ==
    /\ source.kind = "age"
    /\ source.switch = 5
    /\ total = ScenarioLength + 1

C11_UuidRelational ==
    Classified =>
        \A f \in DOMAIN stats :
            (/\ stats[f].count = total
             /\ stats[f].types = {"str"}
             /\ \A x \in stats[f].values_sample : OfSig(x).kind = "uuid") =>
                /\ snapshot.value[f].semantic_info.detected_kind = "uuid"
                /\ ~classified.raised
                /\ f \in DOMAIN classified.placement_reasons
                /\ classified.placement_reasons[f].decision = "sql"
                /\ classified.placement_reasons[f].reason.tag = "sql_strong_candidate"

\* C12: a field that appears only as a nested map, in one record of many,
\* has its nested flag set from then on and is decided 'mongo' with reason
\* nested_structure and confidence 1.0, whatever its frequency.
C12_NestedOnceDocument ==
    Classified =>
        \A f \in DOMAIN stats :
            (stats[f].types = {"dict"} /\ stats[f].count = 1) =>
                /\ stats[f].nested
                /\ snapshot.value[f].nested
                /\ ~classified.raised
                /\ f \in DOMAIN classified.placement_reasons
                /\ classified.placement_reasons[f].decision = "mongo"
                /\ classified.placement_reasons[f].reason.tag = "nested_structure"
                /\ classified.placement_reasons[f].confidence = R1

\* C13: after any sequence of updates every known field has at most as many
\* distinct value signatures as occurrences, so that the uniqueness ratio a
\* snapshot reports is |distinct| / occurrence_count and lies in [0, 1].
C13_UniquenessRatio ==
    /\ \A f \in DOMAIN stats :
           /\ stats[f].count > 0
           /\ Cardinality(stats[f].unique) <= stats[f].count
    /\ Fresh =>
           \A f \in DOMAIN snapshot.value :
               LET r == snapshot.value[f].uniqueness_ratio
               IN  /\ r[1] * stats[f].count = Cardinality(stats[f].unique) * r[2]
                   /\ RLe(R0, r)
                   /\ RLe(r, R1)

\* C13 witness: a field seen three times with two distinct signatures is
\* reported with uniqueness ratio 2/3.
C13_Witness ==
    /\ Fresh
    /\ \E f \in DOMAIN snapshot.value :
           /\ stats[f].count = 3
           /\ Cardinality(stats[f].unique) = 2
           /\ snapshot.value[f].uniqueness_ratio = <<2, 3>>

\* C14: the stability score of every field of a snapshot lies in [0, 1], and
\* is exactly 1.0 when the field has fewer than two batch-history entries.
C14_StabilityRange ==
    Fresh =>
        \A f \in DOMAIN snapshot.value :
            LET st == snapshot.value[f].stability
            IN  /\ RLe(R0, st)
                /\ RLe(st, R1)
                /\ Len(stats[f].batch_history) < 2 => st = R1

\* C14 witness: one snapshot holds a field with a single history entry and
\* stability 1.0 and a field with longer history and stability strictly
\* between 0 and 1.
C14_Witness ==
    /\ Fresh
    /\ \E f, g \in DOMAIN snapshot.value :
           /\ Len(stats[f].batch_history) < 2
           /\ snapshot.value[f].stability = R1
           /\ Len(stats[g].batch_history) >= 2
           /\ RLt(R0, snapshot.value[g].stability)
           /\ RLt(snapshot.value[g].stability, R1)

\* C15: with two or more retained window entries the drift score is
\* 1 - (largest number of entries showing one type) / (number of entries),
\* one vote per batch, and the dominant type has that largest number; the
\* score lies in [0, 1] and is 0.0 when every entry shows the same single
\* type.
C15_DriftScore ==
    (FreshVerdict /\ Len(ListOf(field_windows, verdict.field)) >= 2) =>
        LET w == field_windows[verdict.field]
            n == Len(w)
            da == verdict.drift_analysis
            seen == UNION {w[i].types : i \in 1..n}
            votes(t) == Cardinality({i \in 1..n : t \in w[i].types})
        IN  /\ seen # {} =>
                   /\ da.dominant_type \in seen
                   /\ \A u \in seen : votes(u) <= votes(da.dominant_type)
                   /\ da.drift_score[1] * n =
                          (n - votes(da.dominant_type)) * da.drift_score[2]
            /\ RLe(R0, da.drift_score)
            /\ RLe(da.drift_score, R1)
            /\ (\E t \in TypeNames : \A i \in 1..n : w[i].types = {t}) =>
                   da.drift_score = R0

\* C15 witness: a window of three entries, one of them showing two types,
\* whose two types have two votes each: drift score 1/3.
C15_Witness ==
    /\ FreshVerdict
    /\ verdict.field \in DOMAIN field_windows
    /\ Len(field_windows[verdict.field]) = 3
    /\ \E i \in 1..3 : Cardinality(field_windows[verdict.field][i].types) = 2
    /\ verdict.drift_analysis.drift_score = <<1, 3>>

\* C16: asked about a field with fewer than two window entries (a field
\* never reported included), calculate_drift_score answers drift score 0.0,
\* dominant type 'unknown', has_drift false, and creates no state for it.
C16_ColdScore ==
    [][(verdict'.at # verdict.at /\
        Len(ListOf(field_windows, verdict'.field)) < 2) =>
           /\ verdict'.drift_analysis.drift_score = R0
           /\ verdict'.drift_analysis.dominant_type = "unknown"
           /\ ~verdict'.drift_analysis.has_drift
           /\ DOMAIN field_windows' = DOMAIN field_windows
           /\ field_windows' = field_windows
           /\ type_sequences' = type_sequences
           /\ quarantined_fields' = quarantined_fields]_vars

\* C16 witness: the detector tracks one field and was just asked about a
\* field it has never been told of.
C16_Witness ==
    /\ FreshVerdict
    /\ field_windows # <<>>
    /\ verdict.field \notin DOMAIN field_windows
    /\ verdict.field \notin DOMAIN type_sequences
    /\ verdict.drift_analysis.drift_score = R0
    /\ verdict.drift_analysis.dominant_type = "unknown"

\* C17: every window holds at most window_size entries, and a report for a
\* field appends its batch at the end of the field's window, evicting the
\* oldest entry exactly when the window was full, and touches no other
\* window: the window is the most recent min(n, window_size) batches in
\* arrival order.
C17_WindowFifo ==
    [][/\ \A g \in DOMAIN field_windows' :
              Len(field_windows'[g]) <= window_size
       /\ (source'.calls # source.calls /\ source'.op = "update_field_types") =>
              LET f == source'.field
                  old == ListOf(field_windows, f)
                  new == field_windows'[f]
              IN  /\ Len(new) = IF Len(old) < window_size
                                THEN Len(old) + 1 ELSE window_size
                  /\ new[Len(new)].batch_id = Len(old)
                  /\ SubSeq(new, 1, Len(new) - 1) =
                         IF Len(old) < window_size THEN old ELSE Tail(old)
                  /\ \A g \in DOMAIN field_windows' \ {f} :
                         /\ g \in DOMAIN field_windows
                         /\ field_windows'[g] = field_windows[g]]_vars

\* C17 witness: a report has just arrived for a field whose window is full
\* and has lost its first batch.
C17_Witness ==
    /\ source.op = "update_field_types"
    /\ source.field \in DOMAIN field_windows
    /\ Len(field_windows[source.field]) = window_size
    /\ field_windows[source.field][1].batch_id > 0

\* C18: an update of a field whose profile was written by an earlier update
\* appends one entry to the field's schema_evolution log exactly when the
\* type set passed in differs from the one that update recorded, and
\* appends nothing when the type set is the same.
C18_SchemaEvolutionOnChange ==
    [][(/\ source'.calls # source.calls
        /\ source'.op = "update_field_metadata"
        /\ source'.field \in DOMAIN field_metadata
        /\ "detected_types" \in
               DOMAIN field_metadata[source'.field].type_analysis
        /\ field_metadata[source'.field].placement_reasoning.reason
               # "legacy_decision") =>
           LET old == field_metadata[source'.field]
               new == field_metadata'[source'.field]
               differs == SetOfList(old.type_analysis.detected_types)
                              # SetOfList(new.type_analysis.detected_types)
           IN  Len(new.schema_evolution) =
                   Len(old.schema_evolution) + (IF differs THEN 1 ELSE 0)]_vars

\* C19: after update_field_metadata the stored decision of the field is the
\* decision of the placement_info passed in, whatever decision was stored or
\* loaded before; get_simple_placement_decisions returns one entry for every
\* profiled field and no other, equal to the decision stored for the field.
C19_DecisionOverwritten ==
    /\ (source.op = "update_field_metadata"
            /\ "decision" \in DOMAIN manager.placement_info) =>
           /\ source.field \in DOMAIN field_metadata
           /\ field_metadata[source.field].placement_decision =
                  manager.placement_info.decision
    /\ source.op = "get_simple_placement_decisions" =>
           /\ DOMAIN manager.result = DOMAIN field_metadata
           /\ \A f \in DOMAIN field_metadata :
                  manager.result[f] = field_metadata[f].placement_decision

\* C19 witness: the store holds the legacy decision 'sql' for 'age'; after
\* updates the projection lists two fields and gives 'age' as 'mongo'.
C19_Witness ==
    /\ source.op = "get_simple_placement_decisions"
    /\ metadata_file.kind = "doc"
    /\ "age" \in DOMAIN metadata_file.values
    /\ metadata_file.values["age"] = [str |-> "sql"]
    /\ DOMAIN manager.result = {"age", "user_id"}
    /\ manager.result["age"] = "mongo"

\* C20: constructing a MetadataManager never raises, and on a store that is
\* missing, unreadable, not valid JSON or an empty document the manager
\* starts with an empty profile map.
C20_ConstructNeverRaises ==
    source.op = "construct" =>
        /\ manager.state = "ready"
        /\ (metadata_file.kind \in {"missing", "unreadable", "invalid"}
                \/ Len(metadata_file.keys) = 0) =>
               field_metadata = <<>>

\* C21: a save_metadata that completes, followed by the construction of a
\* new MetadataManager on the same store, constructs the manager and gives
\* it the field names and the placement decisions of the map that was
\* saved, the empty map included.
C21_RestartRoundTrip ==
    [][(/\ manager.state = "ready"
        /\ source.op = "save_metadata"
        /\ manager.saved = "saved"
        /\ source'.calls # source.calls
        /\ source'.op = "construct") =>
           /\ manager'.state = "ready"
           /\ get_simple_placement_decisions(field_metadata') =
                  get_simple_placement_decisions(field_metadata)]_vars

\* the store is a document of one or more entries, every one of them a
\* legacy decision string
AllLegacy(file) ==
    /\ file.kind = "doc"
    /\ Len(file.keys) > 0
    /\ \A f \in DOMAIN file.values : IsStr(file.values[f])

\* C22: constructing a manager on a store whose values are all legacy
\* decision strings gives a profile for every stored field and for no
\* other, each with the stored string as placement_decision, reason
\* 'legacy_decision' and confidence 1.0, and leaves the stored document as
\* it was.
C22_LegacyUpgrade ==
    [][(/\ source'.calls # source.calls
        /\ source'.op = "construct"
        /\ AllLegacy(metadata_file)) =>
           /\ manager'.state = "ready"
           /\ metadata_file' = metadata_file
           /\ DOMAIN field_metadata' = DOMAIN metadata_file.values
           /\ \A f \in DOMAIN field_metadata' :
                  /\ field_metadata'[f].placement_decision =
                         metadata_file.values[f].str
                  /\ field_metadata'[f].placement_reasoning =
                         [reason |-> "legacy_decision", confidence |-> R1]
                  /\ field_metadata'[f].field_name = f
                  /\ field_metadata'[f].schema_evolution = <<>>]_vars

\* C22 witness: a manager was constructed on the legacy store that gives
\* 'age' as 'sql' and 'user_id' as 'mongo', and holds both profiles.
C22_Witness ==
    /\ source.op = "construct"
    /\ AllLegacy(metadata_file)
    /\ DOMAIN metadata_file.values = {"age", "user_id"}
    /\ manager.state = "ready"
    /\ DOMAIN field_metadata = {"age", "user_id"}
    /\ field_metadata["age"].placement_decision = "sql"
    /\ field_metadata["user_id"].placement_decision = "mongo"
    /\ field_metadata["user_id"].placement_reasoning.reason = "legacy_decision"

\* the latest call was a save_metadata that could not write
SaveFailed(src, mgr) ==
    src.op = "save_metadata" /\ mgr.saved \in {"open_failed", "write_failed"}

\* C23: a save_metadata that fails leaves the store as it was before the
\* call: the document saved last is still there in full, never empty,
\* truncated or partly written.
C23_FailedSaveKeepsStore ==
    [][(source'.calls # source.calls /\ SaveFailed(source', manager')) =>
           metadata_file' = metadata_file]_vars

\* C24: a save_metadata that cannot write raises nothing and leaves the
\* profile map in memory as it was, so the updates and the projections
\* that follow work on the map no save has touched.
C24_FailedSaveKeepsMemory ==
    [][(source'.calls # source.calls /\ SaveFailed(source', manager')) =>
           /\ manager'.error = "none"
           /\ manager'.state = "ready"
           /\ field_metadata' = field_metadata
           /\ get_simple_placement_decisions(field_metadata') =
                  get_simple_placement_decisions(field_metadata)]_vars

\* C24 witness: after a save that failed during the write and left the
\* store unreadable, a field was updated and the projection returns the
\* decisions of two fields.
C24_Witness ==
    /\ source.op = "get_simple_placement_decisions"
    /\ manager.saved = "write_failed"
    /\ manager.error = "none"
    /\ metadata_file = partial_file
    /\ DOMAIN manager.result = {"age", "user_id"}
    /\ manager.result["age"] = "mongo"

\* C25: an update_field_metadata call deletes no profile: every profiled
\* field stays profiled, keeps the creation timestamp it had, and its
\* schema_evolution log after the call starts with the log before the call.
C25_ProfilesAppendOnly ==
    [][(source'.calls # source.calls /\ source'.op = "update_field_metadata") =>
           /\ DOMAIN field_metadata \subseteq DOMAIN field_metadata'
           /\ \A f \in DOMAIN field_metadata :
                  LET old == field_metadata[f]
                      new == field_metadata'[f]
                  IN  /\ new.creation_timestamp = old.creation_timestamp
                      /\ Len(new.schema_evolution) >= Len(old.schema_evolution)
                      /\ SubSeq(new.schema_evolution, 1, Len(old.schema_evolution))
                             = old.schema_evolution]_vars

\* C25 witness: 'age' was updated twice and 'user_id' after it; the log of
\* 'age' holds two entries, the first as old as the profile, and the
\* profile of 'age' was written to after it was created.
C25_Witness ==
    /\ source.op = "update_field_metadata"
    /\ DOMAIN field_metadata = {"age", "user_id"}
    /\ Len(field_metadata["age"].schema_evolution) = 2
    /\ field_metadata["age"].schema_evolution[1].timestamp =
           field_metadata["age"].creation_timestamp
    /\ field_metadata["age"].schema_evolution[2].timestamp >
           field_metadata["age"].creation_timestamp
    /\ field_metadata["user_id"].creation_timestamp >
           field_metadata["age"].last_updated

\* the step is the classification of a snapshot that has fields
ClassifiesFields == pc = "main_stats" /\ pc' # pc /\ DOMAIN snapshot.value # {}

C27_TypeSequenceDistinct ==
    [][(source'.calls # source.calls /\ source'.op = "update_field_types") =>
           LET f == source'.field
               before == ListOf(field_windows, f)
               after == field_windows'[f]
               seq == type_sequences'[f]
           IN  /\ (Len(before) > 0 /\
                       after[Len(after)].types = before[Len(before)].types) =>
                      seq = ListOf(type_sequences, f)
               /\ \A i \in 1..(Len(seq) - 1) : seq[i] # seq[i + 1]]_vars

\* the fraction of the batches in which the field was present whose type
\* set is the type set most of them have
MostFrequentShare(h) ==
    LET present_idx == {i \in 1..Len(h) : h[i].present}
        times(i) == Cardinality({j \in present_idx : h[j].types = h[i].types})
        most == CHOOSE m \in {times(i) : i \in present_idx} :
                    \A i \in present_idx : times(i) <= m
    IN  Rat(most, Cardinality(present_idx))

\* C28: for a field with two or more batch-history entries, present in one
\* of them at least, the stability of the snapshot is 0.6 * presence_ratio
\* + 0.4 * type_consistency, where type_consistency is the fraction of its
\* present batches whose type set equals the type set that recurs most.
C28_MostFrequentTypeSet ==
    Fresh =>
        \A f \in DOMAIN snapshot.value :
            LET h == stats[f].batch_history
                present_idx == {i \in 1..Len(h) : h[i].present}
            IN  (Len(h) >= 2 /\ present_idx # {}) =>
                    snapshot.value[f].stability =
                        RAdd(RMul(<<3, 5>>, Rat(Cardinality(present_idx), Len(h))),
                             RMul(<<2, 5>>, MostFrequentShare(h)))

\* the window w with the type set of entry i replaced by S
WithTypes(w, i, S) ==
    [w EXCEPT ![i].types = S, ![i].distribution = type_dist(S)]

\* C29: the drift score reported for a window of two or more entries is
\* not above the score of the same window with the type set of any one
\* entry replaced by a strict superset, and it is above 0 when every entry
\* of the window shows two or more types.
C29_MoreTypesMoreDrift ==
    (FreshVerdict /\ Len(ListOf(field_windows, verdict.field)) >= 2) =>
        LET f == verdict.field
            w == field_windows[f]
            score == verdict.drift_analysis.drift_score
        IN  /\ \A i \in 1..Len(w), S \in DetectorTypeSets :
                   (w[i].types \subseteq S /\ S # w[i].types) =>
                       \A da \in calculate_drift_score(
                                     Put(field_windows, f, WithTypes(w, i, S)),
                                     type_sequences, f) :
                           RLe(score, da.drift_score)
            /\ (\A i \in 1..Len(w) : Cardinality(w[i].types) >= 2) =>
                   RLt(R0, score)

\* a batch-history entry of a batch that is complete and showed the field
CompletedPresent(entry) == entry.present /\ entry.batch < current_batch

\* C30: the window of a field holds one entry for every completed batch in
\* which the field appeared, in batch order, with the types the field
\* showed in that batch; the batch in progress and the batches without the
\* field have no entry, and a field never seen has no window.  (Holding in
\* every state, this places the delivery of a batch at the first record of
\* the next one.)
C30_BatchDeliveredOnce ==
    /\ DOMAIN field_windows \subseteq DOMAIN stats
    /\ \A f \in DOMAIN stats :
           LET completed == SelectSeq(stats[f].batch_history, CompletedPresent)
               w == ListOf(field_windows, f)
           IN  /\ Len(w) = Len(completed)
               /\ \A k \in 1..Len(w) : w[k].types = completed[k].types

\* C30 witness: the third batch is in progress; 'age' appeared in all three
\* batches and has two window entries, the second with two types; 'user_id'
\* appeared in the first batch only and has one entry.
C30_Witness ==
    /\ current_batch = 3
    /\ {"age", "user_id"} \subseteq DOMAIN stats
    /\ Len(stats["age"].batch_history) = 3
    /\ \A i \in 1..3 : stats["age"].batch_history[i].present
    /\ Len(ListOf(field_windows, "age")) = 2
    /\ field_windows["age"][2].types = {"int", "str"}
    /\ Len(stats["user_id"].batch_history) >= 2
    /\ ~stats["user_id"].batch_history[2].present
    /\ Len(ListOf(field_windows, "user_id")) = 1

\* the types the running batch has collected for the field, none if the
\* field has not occurred in it
TrackedNow(tr, batch, f) ==
    IF batch \in DOMAIN tr /\ f \in DOMAIN tr[batch] THEN tr[batch][f] ELSE {}

\* C31: after every update the batch history of every known field holds one
\* entry for each batch from the one that first showed the field to the
\* current batch, numbered without gap or duplicate; the entry of the
\* running batch is marked present, with the types seen, exactly when the
\* field occurred in a record of the batch, an entry of a completed batch
\* is left as it was when the batch ended, and an absent entry has no types.
C31_BatchHistory ==
    [][\A f \in DOMAIN stats' :
           LET h == stats'[f].batch_history
               n == Len(h)
               old == IF f \in DOMAIN stats THEN stats[f].batch_history ELSE <<>>
               now == TrackedNow(batch_types_tracking', current_batch', f)
           IN  /\ n >= 1
               /\ h[1].present
               /\ h[n].batch = current_batch'
               /\ \A i \in 1..n : h[i].batch = h[1].batch + i - 1
               /\ h[n].present <=> now # {}
               /\ h[n].types = now
               /\ \A i \in 1..n : ~h[i].present => h[i].types = {}
               /\ \A i \in 1..Len(old) :
                      old[i].batch < current_batch' => h[i] = old[i]]_vars

\* C31 witness: 'user_id' occurred in the first batch, not in the second
\* and again in the third, which is running: three entries, the middle one
\* absent.
C31_Witness ==
    /\ current_batch = 3
    /\ "user_id" \in DOMAIN stats
    /\ Len(stats["user_id"].batch_history) = 3
    /\ stats["user_id"].batch_history[1].present
    /\ ~stats["user_id"].batch_history[2].present
    /\ stats["user_id"].batch_history[3].present
    /\ stats["user_id"].batch_history[3].types = {"str"}

\* the smallest number of batches of the given size that hold n records
CeilDiv(n, size) == (n + size - 1) \div size

\* C32: every update adds one to total and no other step changes it;
\* current_batch is ceil(total / batch_size) in every state, neither
\* counter ever decreases, and an update opens a batch exactly when its
\* record is number 1, batch_size + 1, 2 * batch_size + 1, and so on.
C32_Counters ==
    [][/\ current_batch' = CeilDiv(total', batch_size')
       /\ total' >= total
       /\ current_batch' >= current_batch
       /\ IF pc' = "updated"
          THEN /\ total' = total + 1
               /\ current_batch' # current_batch <=>
                      (total' - 1) % batch_size = 0
          ELSE total' = total /\ current_batch' = current_batch]_vars

\* C32 witness: the update that brought the first record of the third
\* batch has just run.
C32_Witness ==
    /\ pc = "updated"
    /\ total = 2 * batch_size + 1
    /\ current_batch = 3

\* the snapshot entry matches one of the rules that force 'mongo':
\* quarantine, type conflict (the flag the snapshot carries for a field of
\* several types), nested, long text
ForcedDocument(s) ==
    \/ s.should_quarantine
    \/ s.has_type_ambiguity
    \/ s.nested
    \/ s.semantic_info.is_long_text

\* the reason of the first relational rule the entry matches, in the order
\* strong candidate, categorical, semi-unique, composite score
RelationalReason(s) ==
    LET steady == /\ s.types_count = 1
                  /\ RGe(s.freq, <<60, 100>>)
                  /\ RGe(s.stability, <<80, 100>>)
    IN  IF steady /\ s.semantic_info.detected_kind \in StrongKinds
        THEN "sql_strong_candidate"
        ELSE IF steady /\ s.semantic_info.detected_kind = "categorical"
        THEN "categorical_low_cardinality"
        ELSE IF /\ RGe(s.uniqueness_ratio, <<70, 100>>)
                /\ RGe(s.freq, <<50, 100>>)
                /\ s.types_count = 1
        THEN "semi_unique_field"
        ELSE IF RGe(s.composite_score, <<65, 100>>)
        THEN "composite_score_threshold"
        ELSE "none"

\* C33: the classifier returns a decision for every field of the snapshot;
\* the decision is 'sql' exactly when no rule forcing 'mongo' matches and a
\* relational rule does, with the reason of the first relational rule that
\* matches; a field that matches no rule at all is 'mongo' by default.
C33_RelationalRules ==
    (Classified /\ total > 0) =>
        /\ ~classified.raised
        /\ \A f \in DOMAIN snapshot.value :
               LET s == snapshot.value[f]
                   relational == ~ForcedDocument(s) /\ RelationalReason(s) # "none"
               IN  /\ f \in DOMAIN classified.placement_reasons
                   /\ classified.placement_reasons[f].decision = "sql"
                          <=> relational
                   /\ relational =>
                          classified.placement_reasons[f].reason.tag
                              = RelationalReason(s)
                   /\ (~ForcedDocument(s) /\ RelationalReason(s) = "none") =>
                          classified.placement_reasons[f].reason.tag
                              = "flexible_schema_default"

\* the labels of a type sequence by the three kinds of triple
LabelsOf(seq) ==
    IF Len(seq) < 3 THEN {}
    ELSE LET T == 1..(Len(seq) - 2)
             sns(i) == /\ seq[i] \in StrNames
                       /\ seq[i + 1] \in NumNames
                       /\ seq[i + 2] \in StrNames
             nsn(i) == /\ seq[i] \in NumNames
                       /\ seq[i + 1] \in StrNames
                       /\ seq[i + 2] \in NumNames
             aba(i) == seq[i] = seq[i + 2] /\ seq[i] # seq[i + 1]
         IN  {<<"str", "num", "str">> : i \in {j \in T : sns(j)}}
             \cup {<<"num", "str", "num">> : i \in {j \in T : nsn(j)}}
             \cup {<<seq[i], seq[i + 1], seq[i]>> :
                      i \in {j \in T : aba(j) /\ ~sns(j) /\ ~nsn(j)}}

\* C34: detect_flip_patterns answers nothing for a field with fewer than
\* three type-sequence entries and otherwise the set of the labels of the
\* consecutive triples that are string-number-string, number-string-number
\* or else a-b-a with a # b, and nothing more; the drift analysis of a
\* snapshot carries that set for a field with two or more window entries.
C34_FlipPatterns ==
    Fresh =>
        \A f \in DOMAIN snapshot.value :
            LET seq == ListOf(type_sequences, f)
            IN  /\ detect_flip_patterns(type_sequences, f) = LabelsOf(seq)
                /\ Len(seq) < 3 => detect_flip_patterns(type_sequences, f) = {}
                /\ Len(ListOf(field_windows, f)) >= 2 =>
                       snapshot.value[f].drift_analysis.flip_patterns
                           = LabelsOf(seq)

\* C34 witness: the snapshot reports for 'age' the pattern dict-str-dict,
\* which is neither of the two named patterns.
C34_Witness ==
    /\ Fresh
    /\ "age" \in DOMAIN snapshot.value
    /\ Len(ListOf(type_sequences, "age")) >= 3
    /\ <<"dict", "str", "dict">> \in
           snapshot.value["age"].drift_analysis.flip_patterns

\* C35: no step removes a known field, takes a type from its observed type
\* set or resets its nested flag; an update adds exactly one to the count
\* of every field of its record, adds the type of the value to the type
\* set, sets the nested flag for a composite value, and leaves the count
\* of every other field as it was; no other step changes a count.
C35_AccumulatorsMonotone ==
    [][LET updating == pc' = "updated"
           carried(f) == updating /\ f \in DOMAIN source'.record
       IN  /\ DOMAIN stats \subseteq DOMAIN stats'
           /\ \A f \in DOMAIN stats' :
                  LET old == IF f \in DOMAIN stats THEN stats[f]
                             ELSE new_field_stats
                      new == stats'[f]
                  IN  /\ old.types \subseteq new.types
                      /\ old.nested => new.nested
                      /\ new.count = old.count + (IF carried(f) THEN 1 ELSE 0)
                      /\ carried(f) =>
                             /\ source'.record[f].py_type \in new.types
                             /\ IsNested(source'.record[f]) => new.nested
                      /\ f \notin DOMAIN stats => carried(f)]_vars

\* C35 witness: 'age' was seen as a map and then as a string; after the
\* update with the string the nested flag is still set, both types are
\* kept, and a record without 'age' has left its count behind total.
C35_Witness ==
    /\ pc = "updated"
    /\ "age" \in DOMAIN source.record
    /\ source.record["age"].py_type = "str"
    /\ stats["age"].nested
    /\ {"dict", "str"} \subseteq stats["age"].types
    /\ stats["age"].count >= 3
    /\ stats["age"].count < total

\* the weight of the uniqueness ratio: 0.20 for a ratio of 0.95 or more at
\* frequency 0.5 or more, 0.15 for a ratio in [0.70, 0.95), else 0
UniquenessWeight(s) ==
    IF RGe(s.uniqueness_ratio, <<95, 100>>) /\ RGe(s.freq, <<1, 2>>)
    THEN <<1, 5>>
    ELSE IF RGe(s.uniqueness_ratio, <<7, 10>>) /\ RLt(s.uniqueness_ratio, <<95, 100>>)
    THEN <<3, 20>>
    ELSE R0

\* 0.30 f + 0.20 st + 0.20 tw + 0.15 (sw + 0.10) + 0.15 uw - 0.3 d of a
\* snapshot entry, tw being 1 for one observed type and 0 for more
PlainScore(s) ==
    LET tw == IF Cardinality(s.types) = 1 THEN R1 ELSE R0
        plus == RAdd(RMul(<<30, 100>>, s.freq),
                RAdd(RMul(<<20, 100>>, s.stability),
                RAdd(RMul(<<20, 100>>, tw),
                RAdd(RMul(<<15, 100>>,
                          RAdd(s.semantic_info.semantic_weight, <<10, 100>>)),
                     RMul(<<15, 100>>, UniquenessWeight(s))))))
    IN  RSub(plus, RMul(<<3, 10>>, s.drift_analysis.drift_score))

----------------------------------------------------------------------------
\* what the mapping d holds for the field f alone
only(d, f) == [x \in DOMAIN d \cap {f} |-> d[x]]

\* the batch tracking of the records cut down to the field f: the batches
\* in which f was seen, with the types of f
own_tracking(tr, f) ==
    [b \in {c \in DOMAIN tr : f \in DOMAIN tr[c]} |-> only(tr[b], f)]

\* the analyzer and detector state that concerns the field f
OwnState(f) ==
    [total |-> total,
     current_batch |-> current_batch,
     stats |-> only(stats, f),
     batch_types_tracking |-> own_tracking(batch_types_tracking, f),
     field_windows |-> only(field_windows, f),
     type_sequences |-> only(type_sequences, f)]

\* the snapshot entries get_stats can build for f from what concerns f
OwnEntries(f) ==
    {field_snapshot_of(total, only(stats, f), only(field_windows, f),
                       only(type_sequences, f), quarantined_fields \cap {f},
                       f, smp, dom) :
        smp \in semantic_samples(stats[f].values_sample),
        dom \in dominant_of(only(field_windows, f), f)}

\* C37: fields are independent. An update changes what the analyzer and the
\* detector hold for a field (statistics, batch history, batch tracking,
\* drift window, type sequence) exactly as the same update would with every
\* other field removed from the state and from the record, and the
\* snapshot entry of a field is one get_stats builds from the number of
\* records and that field's own state; so, from the empty analyzer on, the
\* entry depends only on the number of records and on the field's values.
C37_FieldsIndependent ==
    [][/\ pc' = "updated" =>
             \A f \in DOMAIN stats' :
                 update_state(total, batch_size, current_batch,
                              only(stats, f),
                              own_tracking(batch_types_tracking, f),
                              only(field_windows, f),
                              only(type_sequences, f),
                              window_size, only(source'.record, f))
                     = OwnState(f)'
       /\ (pc' = "stats" /\ ~snapshot'.raised) =>
             /\ DOMAIN snapshot'.value = DOMAIN stats
             /\ \A f \in DOMAIN stats :
                    snapshot'.value[f] \in OwnEntries(f)]_vars

\* witness: a snapshot of two fields after a completed batch, where
\* 'user_id' reached the drift window and was missing from some records
\* while 'age' came with more than one type
C37_Witness ==
    /\ Fresh /\ pc = "stats"
    /\ {"age", "user_id"} \subseteq DOMAIN snapshot.value
    /\ "user_id" \in DOMAIN field_windows
    /\ stats["user_id"].count < total
    /\ Cardinality(stats["age"].types) > 1

----------------------------------------------------------------------------
\* the stored document gives some field a legacy decision string and some
\* field a profile
Mixed(file) ==
    /\ file.kind = "doc"
    /\ \E f \in DOMAIN file.values : IsStr(file.values[f])
    /\ \E f \in DOMAIN file.values : ~IsStr(file.values[f])

\* the value is a profile: a mapping with the sections of a profile
FullProfile(v) ==
    /\ ~IsStr(v)
    /\ {"field_name", "placement_decision", "creation_timestamp",
        "last_updated"} \subseteq DOMAIN v

\* the decision string the stored document gives with the value
StoredDecision(v) == IF IsStr(v) THEN v.str ELSE v.placement_decision

\* C38: after a manager is constructed on a stored document in which some
\* values are legacy decision strings and others are profiles, in any
\* order, every entry of the profile map is a full profile, and
\* get_simple_placement_decisions raises nothing and returns, for each
\* field, the decision string the document stores for it.
C38_MixedDocumentLoads ==
    [][(/\ source'.calls # source.calls
        /\ Mixed(metadata_file)) =>
           /\ source'.op = "construct" =>
                 /\ manager'.state = "ready"
                 /\ DOMAIN field_metadata' = DOMAIN metadata_file.values
                 /\ \A f \in DOMAIN field_metadata' :
                        FullProfile(field_metadata'[f])
           /\ source'.op = "get_simple_placement_decisions" =>
                 /\ manager'.error = "none"
                 /\ DOMAIN manager'.result = DOMAIN metadata_file.values
                 /\ \A f \in DOMAIN manager'.result :
                        manager'.result[f] =
                            StoredDecision(metadata_file.values[f])]_vars

----------------------------------------------------------------------------
\* C39: reading is side-effect free. get_stats, which asks
\* calculate_drift_score, detect_flip_patterns, should_quarantine_field and
\* generate_drift_report about every field, changes neither the analyzer's
\* counters, statistics and batch tracking nor the detector's windows, type
\* sequences, quarantine set and events; a later snapshot, which get_stats
\* builds from these alone, is therefore what it would be without the call.
C39_ReadsChangeNothing ==
    [][pc' = "stats" =>
          /\ UNCHANGED <<total, current_batch, stats, batch_types_tracking>>
          /\ UNCHANGED <<field_windows, type_sequences, quarantined_fields,
                         drift_events>>]_vars

\* witness: a second snapshot in a row was taken, with no update in
\* between, of a field the detector has no window for and of a field it
\* has two windows for
C39_Witness ==
    /\ pc = "stats"
    /\ classified.called
    /\ source.record # <<>>
    /\ \E f \in DOMAIN stats : f \notin DOMAIN field_windows
    /\ \E f \in DOMAIN field_windows : Len(field_windows[f]) >= 2

----------------------------------------------------------------------------
\* s is what is left of t when entries are dropped from its front
IsTail(s, t) ==
    /\ Len(s) <= Len(t)
    /\ s = SubSeq(t, Len(t) - Len(s) + 1, Len(t))

\* C40: the bounded collections never exceed their caps. After every update
\* a field's type sequence holds at most 10 entries and its semantic
\* sample at most 100 strings; a type sequence that changed is the tail of
\* the former sequence followed by the sorted types of the batch delivered,
\* cut to the cap, so the entries kept are the most recent ones.
C40_CapsHold ==
    [][/\ \A f \in DOMAIN type_sequences' :
              /\ Len(type_sequences'[f]) <= TypeSeqCap
              /\ type_sequences'[f] # ListOf(type_sequences, f) =>
                    LET grown == ListOf(type_sequences, f) \o
                                 SortedTypes(batch_types_tracking[current_batch][f])
                    IN  /\ IsTail(type_sequences'[f], grown)
                        /\ Len(type_sequences'[f]) =
                               IF Len(grown) < TypeSeqCap THEN Len(grown)
                               ELSE TypeSeqCap
       /\ \A f \in DOMAIN stats' :
              /\ Cardinality(stats'[f].values_sample) <= SampleCap
              /\ stats'[f].values_sample \subseteq stats'[f].unique]_vars

\* witness: 'seq' came with more different values than the sample holds
\* and its type sequence is full after more entries than it holds were
\* reported
C40_Witness ==
    /\ "seq" \in DOMAIN stats
    /\ Cardinality(stats["seq"].unique) > SampleCap
    /\ Cardinality(stats["seq"].values_sample) = SampleCap
    /\ "seq" \in DOMAIN type_sequences
    /\ Len(type_sequences["seq"]) = TypeSeqCap
    /\ 2 * Len(field_windows["seq"]) > TypeSeqCap
    /\ \A i \in 1..Len(field_windows["seq"]) :
           i > source.switch => field_windows["seq"][i].types = {"int", "str"}

====
